---- MODULE Spec2Model ----
(***************************************************************************)
(* A model of the sylt front end: the tree driver of the parser            *)
(* (sylt-parser/src/parser.rs), the expression parser (src/syntree.rs)     *)
(* and the formatter (sylt/src/formatter.rs).                              *)
(***************************************************************************)
EXTENDS Integers, Sequences, FiniteSets, TLC

(***************************************************************************)
(* Bounds of the model.                                                    *)
(***************************************************************************)
\* Number of file paths that exist for the reader; file 1 is the entry.
NumFiles == 3
\* Total number of source lines in all files together.
MaxLines == 3
\* No path is read more often than this (the counters of the model stop here).
MaxCount == 2

Files == 1 .. NumFiles
Entry == 1

VARIABLES
    visited,    \* tree: HashSet of files already handled
    to_visit,   \* tree: Vec of files still to handle (popped from the end)
    modules,    \* tree: Vec<(PathBuf, Module)>
    errors,     \* tree: Vec<Error>, before deduplication
    pc,         \* tree: "loop" while the worklist loop runs, then "done"
    result,     \* tree: the returned Result<AST, Vec<Error>>
    source,     \* ghost: what the reader answered for each path
    reads,      \* ghost: number of reader calls per path
    parses      \* ghost: number of module() calls per path

treeVars == <<visited, to_visit, modules, errors, pc, result, source, reads, parses>>

VARIABLES
    fsrc,       \* format: the text of the file, as written pieces
    fpc,        \* format: where the round trip stands
    tree1,      \* format: the statements parsed from fsrc
    text1,      \* format: format_module of tree1
    tree2,      \* format: the statements parsed from text1
    text2       \* format: format_module of tree2

fmtVars == <<fsrc, fpc, tree1, text1, tree2, text2>>

VARIABLES
    prule,      \* test!: the parser function that is called
    ptokens,    \* test!: the tokens, or the statements, it is called on
    presult,    \* test!: the ParseResult it returned
    pctx,       \* test!: the Context it is called with
    pwritten,   \* what the formatter writes for the parsed value
    ppc         \* test!: "call" before the call, "done" after it

parseVars == <<prule, ptokens, presult, pctx, pwritten, ppc>>

VARIABLES
    ctokens,    \* the tokens the Context is over
    cctx,       \* the Context
    cold,       \* the Context the last operation was called on
    cop,        \* the last operation and its argument
    ccomments,  \* what comments_since_last_statement returned
    cpc         \* "idle", or "prev" inside the loop of Context::prev

ctxVars == <<ctokens, cctx, cold, cop, ccomments, cpc>>

\* No Context is being operated on its own.
CtxIdle ==
    /\ ctokens = <<>>
    /\ cctx = <<>>
    /\ cold = <<>>
    /\ cop = <<>>
    /\ ccomments = <<>>
    /\ cpc = "none"

\* No parser function is being called on its own.
ParseIdle ==
    /\ prule = "none"
    /\ ptokens = <<>>
    /\ presult = <<>>
    /\ pctx = <<>>
    /\ pwritten = <<>>
    /\ ppc = "idle"

\* No file is being formatted.
FmtIdle ==
    /\ fsrc = <<>>
    /\ fpc = "idle"
    /\ tree1 = <<>>
    /\ text1 = <<>>
    /\ tree2 = <<>>
    /\ text2 = <<>>

----
(***************************************************************************)
(* Errors (sylt_common::error::Error as used by parser.rs).                *)
(***************************************************************************)
ZERO_SPAN == [line |-> 0, col_start |-> 0, col_end |-> 0]

SyntaxError(file, span, message) ==
    [kind |-> "SyntaxError", file |-> file, span |-> span, message |-> message]

FileNotFound(file) ==
    [kind |-> "FileNotFound", file |-> file, span |-> ZERO_SPAN, message |-> <<>>]

GitConflictError(file, span) ==
    [kind |-> "GitConflictError", file |-> file, span |-> span, message |-> <<>>]

----
(***************************************************************************)
(* Source files.  A file is a sequence of lines; a line is what it is to   *)
(* the front end: a use directive naming file f, another statement that    *)
(* parses, a statement that fails with one syntax error, a statement that  *)
(* fails below a detail_if_error! wrapper, or a line that starts with the  *)
(* conflict marker.                                                        *)
(***************************************************************************)
Line(k, f) == [k |-> k, f |-> f]

Lines ==
    {Line("use", f) : f \in Files}
        \cup {Line("stmt", 0), Line("bad", 0), Line("detail", 0), Line("conflict", 0)}

Unread == [st |-> "unread", text |-> <<>>]
Missing == [st |-> "missing", text |-> <<>>]
Text(t) == [st |-> "text", text |-> t]

RECURSIVE SumLines(_, _)
SumLines(src, fs) ==
    IF fs = {} THEN 0
    ELSE LET f == CHOOSE x \in fs : TRUE
         IN Len(src[f].text) + SumLines(src, fs \ {f})

\* What reader(file) may answer: a path is read with one stable answer.  A
\* path read for the first time fails to read or has a text of as many lines
\* as the bound leaves.
ReaderFails(file) == source[file].st \in {"unread", "missing"}

TextLengths(file) ==
    IF source[file].st = "unread" THEN 0 .. (MaxLines - SumLines(source, Files))
    ELSE IF source[file].st = "text" THEN {Len(source[file].text)}
    ELSE {}

ReaderGives(file, t) == source[file].st = "unread" \/ source[file] = Text(t)

----
(***************************************************************************)
(* find_conflict_markers                                                   *)
(***************************************************************************)
\* "<<<<<<<".len()
ConflictMarkerLen == 7

starts_with_conflict_marker(line) == line.k = "conflict"

conflict_span_zero_based(i) ==
    [line |-> i, col_start |-> 1, col_end |-> ConflictMarkerLen + 1]

\* i is the index enumerate() gives the line, counted from 0.
conflict_span(i) ==
    [line |-> i + 1, col_start |-> 1, col_end |-> ConflictMarkerLen + 1]

RECURSIVE conflict_scan(_, _, _)
conflict_scan(file, text, i) ==
    IF i >= Len(text) THEN <<>>
    ELSE (IF starts_with_conflict_marker(text[i + 1])
          THEN <<GitConflictError(file, conflict_span(i))>>
          ELSE <<>>) \o conflict_scan(file, text, i + 1)

find_conflict_markers(file, text) == conflict_scan(file, text, 0)

----
(***************************************************************************)
(* module                                                                  *)
(***************************************************************************)
\* detail_if_error!: a copy of the first error, with the message extended,
\* is put in front of the errors.
detail_if_error(errs, msg) ==
    <<SyntaxError(errs[1].file, errs[1].span, errs[1].message \o <<msg>>)>> \o errs

\* The span of the token a statement on line i fails at.
statement_span(i) == [line |-> i, col_start |-> 1, col_end |-> 2]

\* The outcome of outer_statement on line i of a file.
outer_statement(path, line, i) ==
    CASE line.k = "use" ->
            [ok |-> TRUE, statement |-> [kind |-> "Use", file |-> line.f], errs |-> <<>>]
      [] line.k = "bad" ->
            [ok |-> FALSE, statement |-> [kind |-> "None", file |-> 0],
             errs |-> <<SyntaxError(path, statement_span(i), <<"syntax">>)>>]
      [] line.k = "detail" ->
            [ok |-> FALSE, statement |-> [kind |-> "None", file |-> 0],
             errs |-> detail_if_error(
                         <<SyntaxError(path, statement_span(i), <<"syntax">>)>>, "detail")]
      [] OTHER ->
            [ok |-> TRUE, statement |-> [kind |-> "StatementExpression", file |-> 0],
             errs |-> <<>>]

RECURSIVE module_loop(_, _, _, _)
module_loop(path, text, i, st) ==
    IF i > Len(text) THEN st
    ELSE LET r == outer_statement(path, text[i], i)
         IN module_loop(path, text, i + 1,
                IF r.ok
                THEN [st EXCEPT
                        !.use_files = IF r.statement.kind = "Use"
                                      THEN Append(@, r.statement.file) ELSE @,
                        !.statements = Append(@, r.statement)]
                ELSE [st EXCEPT !.errors = @ \o r.errs])

module_uses_only_if_ok(path, text) ==
    LET st == module_loop(path, text, 1,
                  [use_files |-> <<>>, statements |-> <<>>, errors |-> <<>>])
    IN [use_files |-> IF st.errors = <<>> THEN st.use_files ELSE <<>>,
        ok |-> st.errors = <<>>,
        module |-> st.statements,
        errors |-> st.errors]

\* module: the files it names are returned with the module or the errors.
module(path, text) ==
    LET st == module_loop(path, text, 1,
                  [use_files |-> <<>>, statements |-> <<>>, errors |-> <<>>])
    IN [use_files |-> st.use_files,
        ok |-> st.errors = <<>>,
        module |-> st.statements,
        errors |-> st.errors]

----
(***************************************************************************)
(* tree: the filter over the collected errors                              *)
(***************************************************************************)
seen_key_span_only(err) == <<err.span>>

seen_key(err) == <<err.span, err.file>>

\* HashSet::insert: true when the key was not there.
seen_insert_always(seen, key) == [fresh |-> TRUE, seen |-> seen \cup {key}]

seen_insert(seen, key) == [fresh |-> key \notin seen, seen |-> seen \cup {key}]

RECURSIVE filter_errors(_, _, _)
filter_errors(errs, i, seen) ==
    IF i > Len(errs) THEN <<>>
    ELSE LET err == errs[i]
         IN IF err.kind = "SyntaxError"
            THEN LET ins == seen_insert(seen, seen_key(err))
                 IN (IF ins.fresh THEN <<err>> ELSE <<>>)
                        \o filter_errors(errs, i + 1, ins.seen)
            ELSE <<err>> \o filter_errors(errs, i + 1, seen)

----
(***************************************************************************)
(* tree: the worklist loop, one action per way through one iteration       *)
(***************************************************************************)
NoResult == [st |-> "none", modules |-> <<>>, errors |-> <<>>]

TreeInit ==
    /\ visited = {}
    /\ to_visit = <<Entry>>
    /\ modules = <<>>
    /\ errors = <<>>
    /\ pc = "loop"
    /\ result = NoResult
    /\ source = [f \in Files |-> Unread]
    /\ reads = [f \in Files |-> 0]
    /\ parses = [f \in Files |-> 0]

to_visit_pop_front(tv) == [file |-> tv[1], rest |-> Tail(tv)]

\* Vec::pop takes the last element.
to_visit_pop(tv) == [file |-> tv[Len(tv)], rest |-> SubSeq(tv, 1, Len(tv) - 1)]

never_visited(v, file) == FALSE

already_visited(v, file) == file \in v

visited_insert_dropped(v, file) == v

visited_insert(v, file) == v \cup {file}

append_next_dropped(tv, next) == tv

append_next(tv, next) == tv \o next

push_file_not_found_dropped(errs, file) == errs

push_file_not_found(errs, file) == Append(errs, FileNotFound(file))

\* `if visited.contains(&file) { continue; }`
AlreadyVisited ==
    /\ pc = "loop"
    /\ to_visit # <<>>
    /\ LET p == to_visit_pop(to_visit)
       IN /\ already_visited(visited, p.file)
          /\ to_visit' = p.rest
    /\ UNCHANGED <<visited, modules, errors, pc, result, source, reads, parses>>
    /\ UNCHANGED fmtVars
    /\ UNCHANGED parseVars
    /\ UNCHANGED ctxVars

\* `Err(_) => errors.push(Error::FileNotFound(file.clone()))`
ReaderErr ==
    /\ pc = "loop"
    /\ to_visit # <<>>
    /\ LET p == to_visit_pop(to_visit)
       IN /\ ~already_visited(visited, p.file)
          /\ reads[p.file] < MaxCount
          /\ ReaderFails(p.file)
          /\ source' = [source EXCEPT ![p.file] = Missing]
          /\ reads' = [reads EXCEPT ![p.file] = @ + 1]
          /\ errors' = push_file_not_found(errors, p.file)
          /\ visited' = visited_insert(visited, p.file)
          /\ to_visit' = p.rest
    /\ UNCHANGED <<modules, pc, result, parses>>
    /\ UNCHANGED fmtVars
    /\ UNCHANGED parseVars
    /\ UNCHANGED ctxVars

\* The file was read and has conflict markers: the errors are recorded and
\* the file is not parsed.
ConflictMarkers ==
    /\ pc = "loop"
    /\ to_visit # <<>>
    /\ LET p == to_visit_pop(to_visit)
       IN /\ ~already_visited(visited, p.file)
          /\ reads[p.file] < MaxCount
          /\ \E n \in TextLengths(p.file) : \E text \in [1 .. n -> Lines] :
                /\ ReaderGives(p.file, text)
                /\ source' = [source EXCEPT ![p.file] = Text(text)]
                /\ LET conflict_errors == find_conflict_markers(p.file, text)
                   IN /\ conflict_errors # <<>>
                      /\ errors' = errors \o conflict_errors
          /\ reads' = [reads EXCEPT ![p.file] = @ + 1]
          /\ visited' = visited \cup {p.file}
          /\ to_visit' = p.rest
    /\ UNCHANGED <<modules, pc, result, parses>>
    /\ UNCHANGED fmtVars
    /\ UNCHANGED parseVars
    /\ UNCHANGED ctxVars

\* The file was read, has no conflict markers and is parsed by module().
ParseModule ==
    /\ pc = "loop"
    /\ to_visit # <<>>
    /\ LET p == to_visit_pop(to_visit)
       IN /\ ~already_visited(visited, p.file)
          /\ reads[p.file] < MaxCount
          /\ \E n \in TextLengths(p.file) : \E text \in [1 .. n -> Lines] :
                /\ ReaderGives(p.file, text)
                /\ source' = [source EXCEPT ![p.file] = Text(text)]
                /\ find_conflict_markers(p.file, text) = <<>>
                /\ LET r == module(p.file, text)
                   IN /\ modules' = IF r.ok
                                    THEN Append(modules, [path |-> p.file, module |-> r.module])
                                    ELSE modules
                      /\ errors' = IF r.ok THEN errors ELSE errors \o r.errors
                      /\ to_visit' = append_next(p.rest, r.use_files)
          /\ reads' = [reads EXCEPT ![p.file] = @ + 1]
          /\ parses' = [parses EXCEPT ![p.file] = @ + 1]
          /\ visited' = visited_insert(visited, p.file)
    /\ UNCHANGED <<pc, result>>
    /\ UNCHANGED fmtVars
    /\ UNCHANGED parseVars
    /\ UNCHANGED ctxVars

\* The worklist is empty: the result is returned.
Finish ==
    /\ pc = "loop"
    /\ to_visit = <<>>
    /\ result' = IF errors = <<>>
                 THEN [st |-> "Ok", modules |-> modules, errors |-> <<>>]
                 ELSE [st |-> "Err", modules |-> <<>>,
                       errors |-> filter_errors(errors, 1, {})]
    /\ pc' = "done"
    /\ UNCHANGED <<visited, to_visit, modules, errors, source, reads, parses>>
    /\ UNCHANGED fmtVars
    /\ UNCHANGED parseVars
    /\ UNCHANGED ctxVars

TreeNext == AlreadyVisited \/ ReaderErr \/ ConflictMarkers \/ ParseModule \/ Finish

vars == <<treeVars, fmtVars, parseVars, ctxVars>>

Init == TreeInit /\ FmtIdle /\ ParseIdle /\ CtxIdle

Next == TreeNext

Spec == Init /\ [][Next]_vars

\* tree() is one call that runs its loop to the end.
FairSpec == Spec /\ WF_vars(Next)

----
(***************************************************************************)
(* Tokens and the cursor of the expression parser (syntree.rs).  A token   *)
(* is its text; tokens[pos] is the current token and pos = curr + 1.       *)
(***************************************************************************)
IdentifierTokens == {"a", "b", "c", "f"}
IntTokens == {"0", "1", "2", "3"}

\* Context::peek / Context::token: past the end the token is EOF.
token(tokens, pos) == IF pos <= Len(tokens) THEN tokens[pos] ELSE "EOF"

\* A node of the syntax tree: its kind, its name or literal, its children.
Node(k, n, c) == [k |-> k, n |-> n, c |-> c]
NoNode == Node("None", "", <<>>)

\* ParseResult: Ok((ctx, value)) or Err((ctx, errors)).
Ok(pos, val) == [ok |-> TRUE, pos |-> pos, val |-> val, errs |-> <<>>]
Err(pos, errs) == [ok |-> FALSE, pos |-> pos, val |-> NoNode, errs |-> errs]

\* syntax_error!: the error is at the current token.
syntax_error(pos, msg) == [message |-> msg, at |-> pos]

\* raise_syntax_error!: the returned context is one token further.
raise_syntax_error(pos, msg) == Err(pos + 1, <<syntax_error(pos, msg)>>)

\* The precedence levels, in the order of the enum.
Prec_No == 0
Prec_Assert == 1
Prec_BoolOr == 2
Prec_BoolAnd == 3
Prec_Comp == 4
Prec_Term == 5
Prec_Factor == 6
Prec_Index == 7
Prec_Arrow == 8

next_same_level(prec) == prec

\* derive(Next): each level gives the following one, the last gives itself.
next(prec) == IF prec = Prec_Arrow THEN Prec_Arrow ELSE prec + 1

precedence_term_over_factor(t) ==
    CASE t = "[" -> Prec_Index
      [] t \in {"*", "/"} -> Prec_Term
      [] t \in {"-", "+"} -> Prec_Factor
      [] t \in {"==", ">", ">=", "<", "<=", "!="} -> Prec_Comp
      [] t = "&&" -> Prec_BoolAnd
      [] t = "||" -> Prec_BoolOr
      [] t = "<=>" -> Prec_Assert
      [] t = "->" -> Prec_Arrow
      [] OTHER -> Prec_No

precedence(t) ==
    CASE t = "[" -> Prec_Index
      [] t \in {"*", "/"} -> Prec_Factor
      [] t \in {"-", "+"} -> Prec_Term
      [] t \in {"==", ">", ">=", "<", "<=", "!="} -> Prec_Comp
      [] t = "&&" -> Prec_BoolAnd
      [] t = "||" -> Prec_BoolOr
      [] t = "<=>" -> Prec_Assert
      [] t = "->" -> Prec_Arrow
      [] OTHER -> Prec_No

\* The node an infix operator builds; "None" for a token infix has no arm for.
infix_kind(op) ==
    CASE op = "+" -> "Add"
      [] op = "-" -> "Sub"
      [] op = "*" -> "Mul"
      [] op = "/" -> "Div"
      [] op = "==" -> "Eq"
      [] op = "!=" -> "Neq"
      [] op = ">" -> "Gt"
      [] op = ">=" -> "Gteq"
      [] op = "<" -> "Lt"
      [] op = "<=" -> "Lteq"
      [] op = "&&" -> "And"
      [] op = "||" -> "Or"
      [] op = "<=>" -> "AssertEq"
      [] OTHER -> "None"

\* expect!: the token is there and is eaten, or a syntax error is raised.
expect(tokens, pos, tok, msg) ==
    IF token(tokens, pos) # tok THEN raise_syntax_error(pos, msg) ELSE Ok(pos + 1, NoNode)

\* skip_if!: the token is eaten if it is there.
skip_if(tokens, pos, tok) == IF token(tokens, pos) = tok THEN pos + 1 ELSE pos

\* `let (ctx, x) = r?;`: an Err is returned as it is, an Ok goes on.
Try(r, then(_)) == IF r.ok THEN then(r) ELSE r

RECURSIVE expression(_, _)
RECURSIVE parse_precedence(_, _, _)
RECURSIVE infix_loop(_, _, _, _)
RECURSIVE infix(_, _, _)
RECURSIVE prefix(_, _)
RECURSIVE unary(_, _)
RECURSIVE maybe_call(_, _, _)
RECURSIVE call_args(_, _, _, _)
RECURSIVE assignable(_, _)
RECURSIVE grouping_or_tuple(_, _)
RECURSIVE tuple_loop(_, _, _)
RECURSIVE list(_, _)
RECURSIVE list_loop(_, _, _)
RECURSIVE set_or_dict(_, _)
RECURSIVE set_or_dict_loop(_, _, _, _)

value(tokens, pos) ==
    LET t == token(tokens, pos)
    IN IF t \in IntTokens THEN Ok(pos + 1, Node("Int", t, <<>>))
       ELSE IF t \in {"true", "false"} THEN Ok(pos + 1, Node("Bool", t, <<>>))
       ELSE IF t = "nil" THEN Ok(pos + 1, Node("Nil", "", <<>>))
       \* eat! has moved on before the error is raised
       ELSE raise_syntax_error(pos + 1, "Cannot parse value")

unary(tokens, pos) ==
    Try(parse_precedence(tokens, pos + 1, Prec_Factor), LAMBDA e :
        IF token(tokens, pos) = "-" THEN Ok(e.pos, Node("Neg", "", <<e.val>>))
        ELSE IF token(tokens, pos) = "!" THEN Ok(e.pos, Node("Not", "", <<e.val>>))
        ELSE raise_syntax_error(e.pos, "Invalid unary operator"))

\* The loop over the arguments of a call; banger is the call form `f! a, b`.
call_args(tokens, pos, banger, args) ==
    IF \/ token(tokens, pos) = "EOF"
       \/ (token(tokens, pos) = ")" /\ ~banger)
       \/ (token(tokens, pos) \in {".", "\n", "->"} /\ banger)
    THEN Ok(pos, args)
    ELSE Try(expression(tokens, pos), LAMBDA e :
            call_args(tokens, skip_if(tokens, e.pos, ","), banger, Append(args, e.val)))

maybe_call(tokens, pos, calle) ==
    IF token(tokens, pos) \notin {"(", "!"} THEN Ok(pos, calle)
    ELSE Try(call_args(tokens, pos + 1, token(tokens, pos) = "!", <<>>), LAMBDA a :
            IF token(tokens, pos) = "!"
            THEN maybe_call(tokens, a.pos, Node("Call", "", <<calle>> \o a.val))
            ELSE Try(expect(tokens, a.pos, ")", "Expected ')' after calling function"),
                     LAMBDA x :
                        maybe_call(tokens, x.pos, Node("Call", "", <<calle>> \o a.val))))

assignable(tokens, pos) ==
    IF token(tokens, pos) \notin IdentifierTokens
    THEN raise_syntax_error(pos, "Assignable expressions have to start with an identifier")
    ELSE Try(maybe_call(tokens, pos + 1, Node("Read", token(tokens, pos), <<>>)), LAMBDA mc :
            IF token(tokens, mc.pos) = "."
            THEN Try(assignable(tokens, mc.pos + 1), LAMBDA rest :
                    Ok(rest.pos, Node("Access", "", <<mc.val, rest.val>>)))
            ELSE IF token(tokens, mc.pos) = "["
            THEN Try(expression(tokens, mc.pos + 1), LAMBDA index :
                    Ok(index.pos + 1, Node("Index", "", <<mc.val, index.val>>)))
            ELSE mc)

\* `while tuple`: the elements after the first.
tuple_loop(tokens, pos, exprs) ==
    IF token(tokens, skip_if(tokens, pos, ",")) \in {"EOF", ")"}
    THEN Ok(skip_if(tokens, pos, ","), exprs)
    ELSE Try(expression(tokens, skip_if(tokens, pos, ",")), LAMBDA e :
            tuple_loop(tokens, e.pos, Append(exprs, e.val)))

grouping_or_tuple(tokens, pos) ==
    Try(expect(tokens, pos, "(", "Expected '('"), LAMBDA x :
    Try(expression(tokens, x.pos), LAMBDA e :
    Try(IF token(tokens, e.pos) = "," THEN tuple_loop(tokens, e.pos, <<e.val>>)
        ELSE Ok(e.pos, <<e.val>>), LAMBDA l :
    Try(expect(tokens, l.pos, ")", "Expected ')'"), LAMBDA y :
        Ok(y.pos, IF token(tokens, e.pos) = ","
                  THEN Node("Tuple", "", l.val) ELSE l.val[1])))))

list_loop(tokens, pos, exprs) ==
    IF token(tokens, pos) \in {"EOF", "]"} THEN Ok(pos, exprs)
    ELSE Try(expression(tokens, pos), LAMBDA e :
            list_loop(tokens, skip_if(tokens, e.pos, ","), Append(exprs, e.val)))

list(tokens, pos) ==
    Try(expect(tokens, pos, "[", "Expected '['"), LAMBDA x :
    Try(list_loop(tokens, x.pos, <<>>), LAMBDA l :
    Try(expect(tokens, l.pos, "]", "Expected ']'"), LAMBDA y :
        Ok(y.pos, Node("List", "", l.val)))))

is_dict_after_each_item(tokens, pos, is_dict) ==
    IF token(tokens, pos) = ":" THEN "true" ELSE "false"

\* What is_dict is after an item that ends at pos.
is_dict_after(tokens, pos, is_dict) ==
    IF is_dict = "None"
    THEN (IF token(tokens, pos) = ":" THEN "true" ELSE "false")
    ELSE is_dict

set_or_dict_loop_colon_anywhere(tokens, pos, exprs, is_dict) ==
    IF token(tokens, pos) \in {"EOF", "}"}
    THEN Ok(pos, [exprs |-> exprs, is_dict |-> is_dict])
    ELSE IF token(tokens, pos) = ":"
    THEN set_or_dict_loop(tokens, pos + 1, exprs, "true")
    ELSE Try(expression(tokens, pos), LAMBDA e :
            IF is_dict_after(tokens, e.pos, is_dict) = "true"
            THEN Try(expect(tokens, e.pos, ":", "Expected ':' for dict pair"), LAMBDA x :
                 Try(expression(tokens, x.pos), LAMBDA v :
                    set_or_dict_loop(tokens, skip_if(tokens, v.pos, ","),
                                     exprs \o <<e.val, v.val>>, "true")))
            ELSE set_or_dict_loop(tokens, skip_if(tokens, e.pos, ","),
                                  Append(exprs, e.val), "false"))

\* The loop over the items of a brace literal; is_dict is "None" until the
\* first item or a lone `:` decides it.
set_or_dict_loop(tokens, pos, exprs, is_dict) ==
    IF token(tokens, pos) \in {"EOF", "}"}
    THEN Ok(pos, [exprs |-> exprs, is_dict |-> is_dict])
    ELSE IF token(tokens, pos) = ":"
    THEN IF is_dict # "None"
         THEN raise_syntax_error(pos, "Didn't expect empty dict pair")
         ELSE set_or_dict_loop(tokens, pos + 1, exprs, "true")
    ELSE Try(expression(tokens, pos), LAMBDA e :
            IF is_dict_after(tokens, e.pos, is_dict) = "true"
            THEN Try(expect(tokens, e.pos, ":", "Expected ':' for dict pair"), LAMBDA x :
                 Try(expression(tokens, x.pos), LAMBDA v :
                    set_or_dict_loop(tokens, skip_if(tokens, v.pos, ","),
                                     exprs \o <<e.val, v.val>>, "true")))
            ELSE set_or_dict_loop(tokens, skip_if(tokens, e.pos, ","),
                                  Append(exprs, e.val), "false"))

set_or_dict(tokens, pos) ==
    Try(expect(tokens, pos, "{", "Expected '{'"), LAMBDA x :
    Try(set_or_dict_loop(tokens, x.pos, <<>>, "None"), LAMBDA l :
    Try(expect(tokens, l.pos, "}", "Expected '}'"), LAMBDA y :
        Ok(y.pos, Node(IF l.val.is_dict = "true" THEN "Dict" ELSE "Set", "",
                       l.val.exprs)))))

prefix(tokens, pos) ==
    CASE token(tokens, pos) = "(" -> grouping_or_tuple(tokens, pos)
      [] token(tokens, pos) = "[" -> list(tokens, pos)
      [] token(tokens, pos) = "{" -> set_or_dict(tokens, pos)
      [] token(tokens, pos) \in IntTokens \cup {"true", "false", "nil"} ->
            value(tokens, pos)
      [] token(tokens, pos) \in {"-", "!"} -> unary(tokens, pos)
      [] token(tokens, pos) \in IdentifierTokens ->
            Try(assignable(tokens, pos), LAMBDA a : Ok(a.pos, Node("Get", "", <<a.val>>)))
      [] OTHER -> raise_syntax_error(pos, "No valid expression starts with")

\* `lhs -> f(args)`: the left side becomes the first argument of the call.
arrow_call(pos, lhs, rhs) ==
    IF rhs.k = "Get" /\ rhs.c[1].k = "Call"
    THEN Ok(pos, Node("Get", "",
            <<Node("Call", "", <<rhs.c[1].c[1], lhs>> \o Tail(rhs.c[1].c))>>))
    ELSE raise_syntax_error(pos, "Expected a call-expression after '->'")

infix(tokens, pos, lhs) ==
    Try(parse_precedence(tokens, pos + 1, next(precedence(token(tokens, pos)))), LAMBDA r :
        IF infix_kind(token(tokens, pos)) # "None"
        THEN Ok(r.pos, Node(infix_kind(token(tokens, pos)), "", <<lhs, r.val>>))
        ELSE IF token(tokens, pos) = "->" THEN arrow_call(r.pos, lhs, r.val)
        ELSE Err(r.pos, <<>>))

\* One turn of the loop, given what infix answered.
infix_step(tokens, pos, expr, prec, r) ==
    IF r.ok THEN infix_loop(tokens, r.pos, r.val, prec) ELSE Ok(pos, expr)

\* `while prec <= precedence(ctx.token())`: a failed infix ends the loop and
\* the expression so far is the result.
infix_loop(tokens, pos, expr, prec) ==
    IF prec <= precedence(token(tokens, pos))
    THEN infix_step(tokens, pos, expr, prec, infix(tokens, pos, expr))
    ELSE Ok(pos, expr)

\* What parse_precedence does with the answer of prefix.
after_prefix(tokens, prec, pre) ==
    IF ~pre.ok
    THEN Err(pre.pos, Append(pre.errs, syntax_error(pre.pos, "Invalid expression")))
    ELSE infix_loop(tokens, pre.pos, pre.val, prec)

parse_precedence(tokens, pos, prec) == after_prefix(tokens, prec, prefix(tokens, pos))

\* `fn` starts a function, which this parser does not implement.
expression(tokens, pos) ==
    IF token(tokens, pos) = "fn"
    THEN Err(pos, <<syntax_error(pos, "unimplemented")>>)
    ELSE parse_precedence(tokens, pos, Prec_No)

\* A statement: its kind, its parts and the comments in front of it.
Statement(k, c, comments) == [k |-> k, c |-> c, comments |-> comments]

\* One statement: an expression and the newline that ends it.
expression_statement(tokens, pos) ==
    Try(expression(tokens, pos), LAMBDA e :
    Try(expect(tokens, e.pos, "\n", "Expected newline after statement"), LAMBDA x :
        Ok(x.pos, Statement("StatementExpression", <<e.val>>, <<>>))))

RECURSIVE construct_loop(_, _, _, _)

\* One turn of the loop of construct, given what the statement answered.
construct_step(tokens, statements, errs, r) ==
    IF r.ok
    THEN construct_loop(tokens, r.pos, Append(statements, r.val), errs)
    ELSE construct_loop(tokens, r.pos, statements, errs \o r.errs)

\* construct: the statements of a file, or the errors of all its statements.
construct_loop(tokens, pos, statements, errs) ==
    IF token(tokens, pos) = "EOF"
    THEN [ok |-> errs = <<>>, statements |-> IF errs = <<>> THEN statements ELSE <<>>,
          errs |-> errs]
    ELSE IF token(tokens, pos) = "\n"
    THEN construct_loop(tokens, pos + 1, statements, errs)
    ELSE construct_step(tokens, statements, errs, expression_statement(tokens, pos))

construct(tokens) == construct_loop(tokens, 1, <<>>, <<>>)

----
(***************************************************************************)
(* The formatter (formatter.rs).  A text is the sequence of the strings    *)
(* the formatter writes, one after the other.                              *)
(***************************************************************************)
expr_binary_op(kind) ==
    CASE kind = "Add" -> " + "
      [] kind = "Sub" -> " - "
      [] kind = "Mul" -> " * "
      [] kind = "Div" -> " / "
      [] kind = "Is" -> " is "
      [] kind = "Eq" -> " == "
      [] kind = "Neq" -> " != "
      [] kind = "Gt" -> " > "
      [] kind = "Gteq" -> " >= "
      [] kind = "Lt" -> " < "
      [] kind = "Lteq" -> " <= "
      [] kind = "AssertEq" -> " <=> "
      [] kind = "In" -> " in "
      [] kind = "And" -> " && "
      [] kind = "Or" -> " || "
      [] OTHER -> ""

RECURSIVE write_expression(_)
RECURSIVE write_assignable(_)
RECURSIVE write_expressions(_)
RECURSIVE write_dict_pairs(_)

\* write_comma_separated! with write_expression.
write_expressions(values) ==
    IF values = <<>> THEN <<>>
    ELSE IF Len(values) = 1 THEN write_expression(values[1])
    ELSE write_expression(values[1]) \o <<", ">> \o write_expressions(Tail(values))

\* The pairs of a dict: a key with no value makes unwrap() fail.
write_dict_pairs(exprs) ==
    IF exprs = <<>> THEN <<>>
    ELSE IF Len(exprs) = 1 THEN write_expression(exprs[1]) \o <<": ", "panic">>
    ELSE write_expression(exprs[1]) \o <<": ">> \o write_expression(exprs[2])
            \o (IF Len(exprs) > 2 THEN <<", ">> ELSE <<>>)
            \o write_dict_pairs(SubSeq(exprs, 3, Len(exprs)))

write_assignable(a) ==
    CASE a.k = "Read" -> <<a.n>>
      [] a.k = "Call" ->
            write_assignable(a.c[1]) \o <<"(">> \o write_expressions(Tail(a.c)) \o <<")">>
      [] a.k = "ArrowCall" ->
            write_expression(a.c[1]) \o <<" -> ">> \o write_assignable(a.c[2]) \o <<" ">>
                \o write_expressions(SubSeq(a.c, 3, Len(a.c)))
      [] a.k = "Access" -> write_assignable(a.c[1]) \o <<".", a.n>>
      [] a.k = "Index" ->
            write_assignable(a.c[1]) \o <<"[">> \o write_expression(a.c[2]) \o <<"]">>
      [] OTHER -> write_expression(a.c[1])

\* ExpressionKind::Tuple
write_tuple(exprs) ==
    <<"(">> \o (IF exprs = <<>> THEN <<",">> ELSE write_expressions(exprs)) \o <<")">>

write_expression(e) ==
    CASE e.k = "Get" -> write_assignable(e.c[1])
      [] expr_binary_op(e.k) # "" ->
            write_expression(e.c[1]) \o <<expr_binary_op(e.k)>> \o write_expression(e.c[2])
      [] e.k = "Neg" -> <<"-">> \o write_expression(e.c[1])
      [] e.k = "Not" -> <<"!">> \o write_expression(e.c[1])
      [] e.k = "Tuple" -> write_tuple(e.c)
      [] e.k = "List" -> <<"[">> \o write_expressions(e.c) \o <<"]">>
      [] e.k = "Set" -> <<"{">> \o write_expressions(e.c) \o <<"}">>
      [] e.k = "Dict" ->
            <<"{">> \o (IF e.c = <<>> THEN <<":">> ELSE write_dict_pairs(e.c)) \o <<"}">>
      [] e.k = "Nil" -> <<"nil">>
      [] OTHER -> <<e.n>>

\* write_type; unreachable!() for Implied, and Grouping has no arm.
RECURSIVE write_type(_)
RECURSIVE write_types(_)
write_types(types) ==
    IF types = <<>> THEN <<>>
    ELSE IF Len(types) = 1 THEN write_type(types[1])
    ELSE write_type(types[1]) \o <<", ">> \o write_types(Tail(types))

write_type(ty) ==
    CASE ty.k = "Resolved" -> <<ty.n>>
      [] ty.k = "UserDefined" -> write_assignable(ty.c[1])
      [] ty.k = "Union" -> write_type(ty.c[1]) \o <<" | ">> \o write_type(ty.c[2])
      [] ty.k = "Fn" ->
            <<"fn">> \o (IF Len(ty.c) > 1
                         THEN <<" ">> \o write_types(SubSeq(ty.c, 1, Len(ty.c) - 1))
                         ELSE <<>>)
                \o <<" -> ">> \o write_type(ty.c[Len(ty.c)])
      [] ty.k = "Tuple" ->
            <<"(">> \o (IF ty.c = <<>> THEN <<",">> ELSE write_types(ty.c)) \o <<")">>
      [] ty.k = "List" -> <<"[">> \o write_type(ty.c[1]) \o <<"]">>
      [] ty.k = "Set" -> <<"{">> \o write_type(ty.c[1]) \o <<"}">>
      [] ty.k = "Dict" ->
            <<"{">> \o write_type(ty.c[1]) \o <<": ">> \o write_type(ty.c[2]) \o <<"}">>
      [] ty.k = "Generic" -> <<ty.n>>
      [] OTHER -> <<"unreachable">>

RECURSIVE write_comments(_)
write_comments(comments) ==
    IF comments = <<>> THEN <<>>
    ELSE <<"// ", comments[1], "\n">> \o write_comments(Tail(comments))

write_statement(statement) ==
    write_comments(statement.comments)
        \o (IF statement.k = "StatementExpression" THEN write_expression(statement.c[1])
            ELSE <<>>)

\* The run of empty statements at the head of `rest` is eaten into `statement`.
RECURSIVE eat_empty_statements(_, _)
eat_empty_statements_keeps_last(statement, rest) ==
    IF rest # <<>> /\ rest[1].k = "EmptyStatement"
    THEN eat_empty_statements(
            [statement EXCEPT !.comments = rest[1].comments], Tail(rest))
    ELSE [statement |-> statement, rest |-> rest]

\* merge_empty_statements, the inner loop: the comments of the empty
\* statements that follow are appended to the statement.
eat_empty_statements(statement, rest) ==
    IF rest # <<>> /\ rest[1].k = "EmptyStatement"
    THEN eat_empty_statements(
            [statement EXCEPT !.comments = @ \o rest[1].comments], Tail(rest))
    ELSE [statement |-> statement, rest |-> rest]

RECURSIVE merge_empty_statements(_)
merge_empty_statements(statements) ==
    IF statements = <<>> THEN <<>>
    ELSE IF statements[1].k # "EmptyStatement"
    THEN <<statements[1]>> \o merge_empty_statements(Tail(statements))
    ELSE LET m == eat_empty_statements(statements[1], Tail(statements))
         IN <<m.statement>> \o merge_empty_statements(m.rest)

RECURSIVE write_statements(_)
write_statements(statements) ==
    IF statements = <<>> THEN <<>>
    ELSE write_statement(statements[1]) \o <<"\n">> \o write_statements(Tail(statements))

format_module(statements) == write_statements(merge_empty_statements(statements))

\* The tokens of a text: the strings the formatter writes are one token
\* each, with blanks around or after it.
piece_token(piece) ==
    CASE piece = ", " -> ","
      [] piece = ": " -> ":"
      [] piece = " + " -> "+"
      [] piece = " - " -> "-"
      [] piece = " * " -> "*"
      [] piece = " / " -> "/"
      [] piece = " == " -> "=="
      [] piece = " != " -> "!="
      [] piece = " > " -> ">"
      [] piece = " >= " -> ">="
      [] piece = " < " -> "<"
      [] piece = " <= " -> "<="
      [] piece = " <=> " -> "<=>"
      [] piece = " && " -> "&&"
      [] piece = " || " -> "||"
      [] piece = " -> " -> "->"
      [] OTHER -> piece

string_to_tokens(text) ==
    SelectSeq([i \in DOMAIN text |-> piece_token(text[i])], LAMBDA t : t # " ")

----
(***************************************************************************)
(* Formatting a file and formatting the result again.  format() parses     *)
(* the file and writes its module; the written text is then the file.      *)
(***************************************************************************)
MaxSrcLen == 5

SrcPieces == {"(", ")", ",", "1", "a", " + ", " * "}

\* The files: one line of at most MaxSrcLen pieces.
FmtSources ==
    UNION {{line \o <<"\n">> : line \in [1 .. n -> SrcPieces]} : n \in 1 .. MaxSrcLen}

FmtInit ==
    /\ TreeInit
    /\ ParseIdle
    /\ CtxIdle
    /\ fsrc \in FmtSources
    /\ fpc = "start"
    /\ tree1 = <<>>
    /\ text1 = <<>>
    /\ tree2 = <<>>
    /\ text2 = <<>>

\* format(): the file is parsed; with syntax errors nothing is written.
FmtParse ==
    /\ fpc = "start"
    /\ LET r == construct(string_to_tokens(fsrc))
       IN /\ fpc' = IF r.ok THEN "parsed" ELSE "parse_failed"
          /\ tree1' = IF r.ok THEN r.statements ELSE <<>>
    /\ UNCHANGED <<fsrc, text1, tree2, text2>>
    /\ UNCHANGED treeVars
    /\ UNCHANGED parseVars
    /\ UNCHANGED ctxVars

\* format(): the module is written.
FmtWrite ==
    /\ fpc = "parsed"
    /\ text1' = format_module(tree1)
    /\ fpc' = "written"
    /\ UNCHANGED <<fsrc, tree1, tree2, text2>>
    /\ UNCHANGED treeVars
    /\ UNCHANGED parseVars
    /\ UNCHANGED ctxVars

\* format() on the written text: it is parsed.
FmtReparse ==
    /\ fpc = "written"
    /\ LET r == construct(string_to_tokens(text1))
       IN /\ fpc' = IF r.ok THEN "reparsed" ELSE "reparse_failed"
          /\ tree2' = IF r.ok THEN r.statements ELSE <<>>
    /\ UNCHANGED <<fsrc, tree1, text1, text2>>
    /\ UNCHANGED treeVars
    /\ UNCHANGED parseVars
    /\ UNCHANGED ctxVars

\* format() on the written text: its module is written.
FmtRewrite ==
    /\ fpc = "reparsed"
    /\ text2' = format_module(tree2)
    /\ fpc' = "done"
    /\ UNCHANGED <<fsrc, tree1, text1, tree2>>
    /\ UNCHANGED treeVars
    /\ UNCHANGED parseVars
    /\ UNCHANGED ctxVars

FmtNext == FmtParse \/ FmtWrite \/ FmtReparse \/ FmtRewrite

FmtSpec == FmtInit /\ [][FmtNext]_vars

----
(***************************************************************************)
(* The cursor of the parser (parser.rs): Context.  tokens[ctx.curr] is the *)
(* current token (the code counts from 0, the model from 1).               *)
(***************************************************************************)
CommentTokens == {"//c", "//d"}

\* Context::new
Context_new == [curr |-> 1, skip_newlines |-> FALSE, last_statement |-> 1, file |-> "file.sy"]

RECURSIVE skip_tokens(_, _, _)
skip_tokens_counts_comments(tokens, curr, n) ==
    IF n = 0 THEN curr
    ELSE skip_tokens(tokens, curr + 1, n - 1)

\* Context::skip, first loop: n tokens that are no comments are passed.
skip_tokens(tokens, curr, n) ==
    IF n = 0 THEN curr
    ELSE skip_tokens(tokens, curr + 1,
                     IF token(tokens, curr) \in CommentTokens THEN n ELSE n - 1)

\* Context::skip, second loop: the comments that follow are passed, and the
\* newlines if newlines are skipped.
RECURSIVE skip_trailing(_, _, _)
skip_trailing(tokens, curr, skip_newlines) ==
    IF token(tokens, curr) \in CommentTokens
    THEN skip_trailing(tokens, curr + 1, skip_newlines)
    ELSE IF token(tokens, curr) = "\n" /\ skip_newlines
    THEN skip_trailing(tokens, curr + 1, skip_newlines)
    ELSE curr

\* Context::skip
Context_skip(tokens, ctx, n) ==
    [ctx EXCEPT !.curr = skip_trailing(tokens, skip_tokens(tokens, ctx.curr, n),
                                       ctx.skip_newlines)]

\* Context::push_skip_newlines: the context with the new mode (the old mode,
\* which the code returns with it, is ctx.skip_newlines).
Context_push_skip_newlines(tokens, ctx, skip_newlines) ==
    Context_skip(tokens, [ctx EXCEPT !.skip_newlines = skip_newlines], 0)

\* Context::skip_if
Context_skip_if(tokens, ctx, tok) ==
    IF token(tokens, ctx.curr) = tok THEN Context_skip(tokens, ctx, 1) ELSE ctx

\* ParseResult of parser.rs: Ok((ctx, value)) or Err((ctx, errors)).
POk(ctx, val) == [ok |-> TRUE, ctx |-> ctx, val |-> val, errs |-> <<>>]
PErr(ctx, errs) == [ok |-> FALSE, ctx |-> ctx, val |-> NoNode, errs |-> errs]

\* syntax_error! of parser.rs: the file of the context and the span of the
\* current token.
p_syntax_error(ctx, msg) == [file |-> ctx.file, at |-> ctx.curr, message |-> msg]

p_raise_syntax_error_keeps_ctx(tokens, ctx, msg) ==
    PErr(ctx, <<p_syntax_error(ctx, msg)>>)

\* raise_syntax_error! of parser.rs: the error is at the current token and the
\* returned context has skipped one token.
p_raise_syntax_error(tokens, ctx, msg) ==
    PErr(Context_skip(tokens, ctx, 1), <<p_syntax_error(ctx, msg)>>)

\* expect! of parser.rs
p_expect(tokens, ctx, tok, msg) ==
    IF token(tokens, ctx.curr) # tok THEN p_raise_syntax_error(tokens, ctx, msg)
    ELSE POk(Context_skip(tokens, ctx, 1), NoNode)

\* The identifiers that name a built-in type.
TypeNames == {"void", "int", "float", "bool", "str"}

RECURSIVE p_expression(_, _)
RECURSIVE sub_assignable(_, _, _)
RECURSIVE call_arguments(_, _, _, _)

\* The loop over the arguments of a call; primer is the call form `f' a, b`.
call_arguments_arrow_is_argument(tokens, ctx, primer, args) ==
    IF \/ token(tokens, ctx.curr) \in {"EOF", "else"}
       \/ (token(tokens, ctx.curr) = ")" /\ ~primer)
       \/ (token(tokens, ctx.curr) \in {".", "\n"} /\ primer)
    THEN POk(ctx, args)
    ELSE Try(p_expression(tokens, ctx), LAMBDA e :
            call_arguments(tokens, Context_skip_if(tokens, e.ctx, ","), primer,
                           Append(args, e.val)))

\* assignable_call, the loop over the arguments.
call_arguments(tokens, ctx, primer, args) ==
    IF \/ token(tokens, ctx.curr) \in {"EOF", "else"}
       \/ (token(tokens, ctx.curr) = ")" /\ ~primer)
       \/ (token(tokens, ctx.curr) \in {".", "\n", "->"} /\ primer)
    THEN POk(ctx, args)
    ELSE Try(p_expression(tokens, ctx), LAMBDA e :
            call_arguments(tokens, Context_skip_if(tokens, e.ctx, ","), primer,
                           Append(args, e.val)))

\* What assignable_call does once the arguments are parsed.
call_close(tokens, callee, primer, a) ==
    IF primer
    THEN sub_assignable(tokens, a.ctx, Node("Call", "", <<callee>> \o a.val))
    ELSE Try(p_expect(tokens, a.ctx, ")", "Expected ')' after calling function"),
             LAMBDA x :
                sub_assignable(tokens, x.ctx, Node("Call", "", <<callee>> \o a.val)))

assignable_call(tokens, ctx, callee) ==
    IF token(tokens, ctx.curr) \notin {"'", "("}
    THEN p_raise_syntax_error(tokens, ctx, "Expected '(' or ' when calling function")
    ELSE Try(call_arguments(tokens, Context_skip(tokens, ctx, 1),
                            token(tokens, ctx.curr) = "'", <<>>),
             LAMBDA a : call_close(tokens, callee, token(tokens, ctx.curr) = "'", a))

assignable_index(tokens, ctx, indexed) ==
    Try(p_expect(tokens, ctx, "[", "Expected '[' when indexing"), LAMBDA x :
    Try(p_expression(tokens, x.ctx), LAMBDA e :
    Try(p_expect(tokens, e.ctx, "]", "Expected ']' after index"), LAMBDA y :
        sub_assignable(tokens, y.ctx, Node("Index", "", <<indexed, e.val>>)))))

assignable_dot(tokens, ctx, accessed) ==
    IF token(tokens, Context_skip(tokens, ctx, 1).curr) \in IdentifierTokens \cup TypeNames
    THEN sub_assignable(tokens, Context_skip(tokens, Context_skip(tokens, ctx, 1), 1),
                        Node("Access", token(tokens, Context_skip(tokens, ctx, 1).curr),
                             <<accessed>>))
    ELSE p_raise_syntax_error(tokens, ctx,
                              "Assignable expressions have to start with an identifier")

sub_assignable(tokens, ctx, a) ==
    CASE token(tokens, ctx.curr) \in {"'", "("} -> assignable_call(tokens, ctx, a)
      [] token(tokens, ctx.curr) = "[" -> assignable_index(tokens, ctx, a)
      [] token(tokens, ctx.curr) = "." -> assignable_dot(tokens, ctx, a)
      [] OTHER -> POk(ctx, a)

\* assignable of parser.rs
p_assignable(tokens, ctx) ==
    IF token(tokens, ctx.curr) \in IdentifierTokens \cup TypeNames
    THEN sub_assignable(tokens, Context_skip(tokens, ctx, 1),
                        Node("Read", token(tokens, ctx.curr), <<>>))
    ELSE p_raise_syntax_error(tokens, ctx,
                              "Assignable expressions have to start with an identifier")

\* expression of the parser: a value or an assignable; a token that starts
\* neither is rejected.
p_expression(tokens, ctx) ==
    IF token(tokens, ctx.curr) \in IntTokens
    THEN POk(Context_skip(tokens, ctx, 1), Node("Int", token(tokens, ctx.curr), <<>>))
    ELSE IF token(tokens, ctx.curr) \in IdentifierTokens
    THEN Try(p_assignable(tokens, ctx), LAMBDA a : POk(a.ctx, Node("Get", "", <<a.val>>)))
    ELSE p_raise_syntax_error(tokens, ctx, "No valid expression starts with")

RECURSIVE parse_type(_, _)
RECURSIVE fn_type_loop(_, _, _)
RECURSIVE tuple_type_loop(_, _, _, _)

Resolved(name) == Node("Resolved", name, <<>>)

fn_type_return_keeps_cursor(ctx, params, r) ==
    POk(r.ctx, Node("Fn", "", Append(params, IF r.ok THEN r.val ELSE Resolved("void"))))

\* `break if let Ok((_ctx, ret)) = parse_type(ctx) { .. } else { .. }`
fn_type_return(ctx, params, r) ==
    IF r.ok THEN POk(r.ctx, Node("Fn", "", Append(params, r.val)))
    ELSE POk(ctx, Node("Fn", "", Append(params, Resolved("void"))))

\* T::Fn: the loop over the parameters; the return type is the last child.
fn_type_loop(tokens, ctx, params) ==
    IF token(tokens, ctx.curr) = "->"
    THEN fn_type_return(Context_skip(tokens, ctx, 1), params,
                        parse_type(tokens, Context_skip(tokens, ctx, 1)))
    ELSE IF token(tokens, ctx.curr) = "EOF"
    THEN p_raise_syntax_error(tokens, ctx, "Didn't expect EOF in type definition")
    ELSE Try(parse_type(tokens, ctx), LAMBDA param :
            IF token(tokens, param.ctx.curr) \in {",", "->"}
            THEN fn_type_loop(tokens, Context_skip_if(tokens, param.ctx, ","),
                              Append(params, param.val))
            ELSE p_raise_syntax_error(tokens, param.ctx,
                                      "Expected ',' or '->' after type parameter"))

tuple_type_loop_comma_unseen(tokens, ctx, types, is_tuple) ==
    IF token(tokens, Context_skip_if(tokens, ctx, ",").curr) \in {"EOF", ")"}
    THEN POk(Context_skip_if(tokens, ctx, ","), [types |-> types, is_tuple |-> is_tuple])
    ELSE Try(parse_type(tokens, Context_skip_if(tokens, ctx, ",")), LAMBDA ty :
            tuple_type_loop(tokens, ty.ctx, Append(types, ty.val), is_tuple))

\* T::LeftParen: the loop over the types between the parentheses.
tuple_type_loop(tokens, ctx, types, is_tuple) ==
    IF token(tokens, Context_skip_if(tokens, ctx, ",").curr) \in {"EOF", ")"}
    THEN POk(Context_skip_if(tokens, ctx, ","), [types |-> types, is_tuple |-> is_tuple])
    ELSE Try(parse_type(tokens, Context_skip_if(tokens, ctx, ",")), LAMBDA ty :
            tuple_type_loop(tokens, ty.ctx, Append(types, ty.val),
                            is_tuple \/ token(tokens, ty.ctx.curr) = ","))

\* The first `match` of parse_type: the type that starts at the cursor.
parse_type_kind(tokens, ctx) ==
    CASE token(tokens, ctx.curr) \in TypeNames ->
            POk(Context_skip(tokens, ctx, 1), Resolved(token(tokens, ctx.curr)))
      [] token(tokens, ctx.curr) \in IdentifierTokens ->
            Try(p_assignable(tokens, ctx), LAMBDA a :
                POk(a.ctx, Node("UserDefined", "", <<a.val>>)))
      [] token(tokens, ctx.curr) = "#" ->
            IF token(tokens, Context_skip(tokens, ctx, 1).curr)
                    \in IdentifierTokens \cup TypeNames
            THEN POk(Context_skip(tokens, Context_skip(tokens, ctx, 1), 1),
                     Node("Generic", token(tokens, Context_skip(tokens, ctx, 1).curr), <<>>))
            ELSE p_raise_syntax_error(tokens, Context_skip(tokens, ctx, 1),
                                      "Expected identifier when parsing generic type")
      [] token(tokens, ctx.curr) = "fn" ->
            fn_type_loop(tokens, Context_skip(tokens, ctx, 1), <<>>)
      [] token(tokens, ctx.curr) = "(" ->
            Try(tuple_type_loop(tokens, Context_skip(tokens, ctx, 1), <<>>,
                                token(tokens, Context_skip(tokens, ctx, 1).curr)
                                    \in {",", ")"}), LAMBDA l :
            Try(p_expect(tokens, l.ctx, ")", "Expected ')' after tuple or grouping"),
                LAMBDA x :
                    POk(x.ctx, IF l.val.is_tuple THEN Node("Tuple", "", l.val.types)
                               ELSE Node("Grouping", "", <<l.val.types[1]>>))))
      [] token(tokens, ctx.curr) = "[" ->
            Try(parse_type(tokens, Context_skip(tokens, ctx, 1)), LAMBDA ty :
            Try(p_expect(tokens, ty.ctx, "]", "Expected ']' after list type"), LAMBDA x :
                POk(x.ctx, Node("List", "", <<ty.val>>))))
      [] token(tokens, ctx.curr) = "{" ->
            Try(parse_type(tokens, Context_skip(tokens, ctx, 1)), LAMBDA ty :
                IF token(tokens, ty.ctx.curr) = ":"
                THEN Try(parse_type(tokens, Context_skip(tokens, ty.ctx, 1)), LAMBDA val_ty :
                     Try(p_expect(tokens, val_ty.ctx, "}", "Expected '}' after dict type"),
                         LAMBDA x : POk(x.ctx, Node("Dict", "", <<ty.val, val_ty.val>>))))
                ELSE Try(p_expect(tokens, ty.ctx, "}", "Expected '}' after set type"),
                         LAMBDA x : POk(x.ctx, Node("Set", "", <<ty.val>>))))
      [] OTHER -> p_raise_syntax_error(tokens, ctx, "No type starts with")

\* Nullable type: `a?` is `a | void`.
parse_type_nullable(tokens, u) ==
    IF token(tokens, u.ctx.curr) = "?"
    THEN POk(Context_skip(tokens, u.ctx, 1),
             Node("Union", "", <<u.val, Resolved("void")>>))
    ELSE u

\* Union type: `a | b`, and then the nullable type.
parse_type_union(tokens, ty) ==
    IF token(tokens, ty.ctx.curr) = "|"
    THEN Try(parse_type(tokens, Context_skip(tokens, ty.ctx, 1)), LAMBDA rest :
            parse_type_nullable(tokens,
                POk(rest.ctx, Node("Union", "", <<ty.val, rest.val>>))))
    ELSE parse_type_nullable(tokens, ty)

parse_type(tokens, ctx) ==
    Try(parse_type_kind(tokens, ctx), LAMBDA ty : parse_type_union(tokens, ty))


\* Context::comments_since_last_statement: skip(last_statement), then
\* take(curr - last_statement), then the comments of what is left.
comments_taken(tokens, ctx, length) ==
    SelectSeq([i \in 1 .. length |-> token(tokens, ctx.last_statement + i - 1)],
              LAMBDA t : t \in CommentTokens)

\* skip_until!(ctx, T::Newline)
RECURSIVE skip_until_newline(_, _)
skip_until_newline(tokens, ctx) ==
    IF token(tokens, ctx.curr) \in {"EOF", "\n"} THEN ctx
    ELSE skip_until_newline(tokens, Context_skip(tokens, ctx, 1))

\* outer_statement of the parser, for an expression statement: the
\* expression, then the end of the tokens or a newline.
p_outer_statement(tokens, ctx) ==
    Try(p_expression(tokens, ctx), LAMBDA e :
        IF token(tokens, e.ctx.curr) = "EOF"
        THEN POk(e.ctx, [span |-> ctx.curr, value |-> e.val])
        ELSE Try(p_expect(tokens, e.ctx, "\n", "Expected newline to end statement"),
                 LAMBDA x : POk(x.ctx, [span |-> ctx.curr, value |-> e.val])))

RECURSIVE p_module_loop(_, _, _, _)

\* One turn of the loop of module, given what outer_statement answered.
p_module_step(tokens, statements, errs, r) ==
    IF r.ok
    THEN p_module_loop(tokens, r.ctx, Append(statements, r.val), errs)
    ELSE p_module_loop(tokens, skip_until_newline(tokens, r.ctx), statements,
                       errs \o r.errs)

\* module: its loop, and the Result it builds; `parsed` is the list of the
\* statements at the end of the loop, and the comments after the last
\* statement make one more EmptyStatement.
p_module_loop(tokens, ctx, statements, errs) ==
    IF token(tokens, ctx.curr) = "EOF"
    THEN [ok |-> errs = <<>>,
          parsed |-> statements,
          trailing_comments |-> comments_taken(tokens, ctx, ctx.curr - ctx.last_statement),
          errs |-> errs,
          ctx |-> ctx]
    ELSE IF token(tokens, ctx.curr) = "\n"
    THEN p_module_loop(tokens, Context_skip(tokens, ctx, 1), statements, errs)
    ELSE p_module_step(tokens, statements, errs, p_outer_statement(tokens, ctx))

p_module(tokens) == p_module_loop(tokens, Context_new, <<>>, <<>>)

----
(***************************************************************************)
(* A parser function called on its own, as the test! macros call it: the   *)
(* text is turned into tokens, the function is called on a fresh Context,  *)
(* and the result and the cursor are looked at.                            *)
(***************************************************************************)
\* The tokens infix is entered for with an operator rule or the arrow rule.
BinaryTokens == {"+", "-", "*", "/", "==", "!=", ">", ">=", "<", "<=", "&&", "||", "<=>"}
InfixTokens == BinaryTokens \cup {"->"}
OperandTokens == {"a", "b", "1"}

\* `x op y` and `x op y op z`.
OperatorInputs ==
    {<<x, op, y>> : x \in OperandTokens, op \in InfixTokens, y \in OperandTokens}
        \cup {<<x, op1, y, op2, z>> : x \in OperandTokens, op1 \in InfixTokens,
                                     y \in OperandTokens, op2 \in InfixTokens,
                                     z \in OperandTokens}

\* What may stand to the right of an arrow: calls of both forms, a name, and
\* expressions that are neither.
ArrowOperands ==
    {<<"f", "(", ")">>, <<"f", "(", "2", ")">>, <<"f", "(", "2", ",", "3", ")">>,
     <<"f", "!">>, <<"f", "!", "2", ",", "3">>, <<"f">>, <<"1">>, <<"(", "1", ")">>,
     <<"[", "1", "]">>, <<"-", "1">>}

\* `x -> R` and `y + x -> R`.
ArrowInputs ==
    {<<x, "->">> \o R : x \in OperandTokens, R \in ArrowOperands}
        \cup {<<y, "+", x, "->">> \o R : y, x \in OperandTokens, R \in ArrowOperands}

MaxBraceLen == 5

BraceTokens == {"{", "}", ":", ",", "1", "a"}

\* `{` and at most MaxBraceLen tokens of a brace literal.
BraceInputs ==
    UNION {{<<"{">> \o rest : rest \in [1 .. n -> BraceTokens]} : n \in 1 .. MaxBraceLen}

MaxTupleLen == 4

TupleTokens == {"(", ")", ",", "1", "a"}

\* `(` and at most MaxTupleLen tokens of a grouping or tuple.
TupleInputs ==
    UNION {{<<"(">> \o rest : rest \in [1 .. n -> TupleTokens]} : n \in 1 .. MaxTupleLen}

ExpressionInputs == OperatorInputs \cup ArrowInputs \cup BraceInputs \cup TupleInputs

MaxTypeLen == 4

TypeTokens == {"int", "str", "|", "?", "(", ")", ",", "fn", "->"}

MaxParenTypeLen == 5

ParenTypeTokens == {"(", ")", ",", "int", "str"}

\* At most MaxTypeLen tokens of a type, and `(` with at most MaxParenTypeLen
\* tokens of a parenthesised type.
TypeInputs ==
    UNION {[1 .. n -> TypeTokens] : n \in 1 .. MaxTypeLen}
        \cup UNION {{<<"(">> \o rest : rest \in [1 .. n -> ParenTypeTokens]} :
                        n \in 1 .. MaxParenTypeLen}

MaxCallLen == 4

CallTokens == {"1", "2", ",", "\n", ".", "->", "else", ")", "b"}

\* `f'` and `f(` with at most MaxCallLen tokens after them.
CallInputs ==
    UNION {{<<"f", open>> \o rest : open \in {"'", "("}, rest \in [1 .. n -> CallTokens]} :
                n \in 0 .. MaxCallLen}

MaxChain == 3

\* An identifier with at most one call or index after it.
ChainSteps ==
    {<<id>> \o post : id \in {"a", "b", "c"},
                      post \in {<<>>, <<"[", "2", "]">>, <<"(", "1", ")">>,
                                <<"(", "2", ",", "3", ")">>}}

\* The chains of n steps, with a `.` between two steps.
RECURSIVE Chains(_)
Chains(n) ==
    IF n = 1 THEN ChainSteps
    ELSE {step \o <<".">> \o rest : step \in ChainSteps, rest \in Chains(n - 1)}

ChainInputs == UNION {Chains(n) : n \in 1 .. MaxChain}

MaxModuleLen == 5

ModuleTokens == {"a", "1", "[", "]", ")", "\n"}

\* The files of at most MaxModuleLen tokens.
ModuleInputs == UNION {[1 .. n -> ModuleTokens] : n \in 1 .. MaxModuleLen}

MaxStatements == 4

\* An EmptyStatement with no, one or two comments, and an expression
\* statement with no or one comment.
StatementValues ==
    {Statement("EmptyStatement", <<>>, comments) :
            comments \in {<<>>, <<"//c">>, <<"//d">>, <<"//c", "//d">>}}
        \cup {Statement("StatementExpression", <<Node("Int", "1", <<>>)>>, comments) :
                    comments \in {<<>>, <<"//c">>}}

StatementInputs == UNION {[1 .. n -> StatementValues] : n \in 0 .. MaxStatements}

ParseInit ==
    /\ TreeInit
    /\ FmtIdle
    /\ CtxIdle
    /\ \/ /\ prule = "expression"
          /\ ptokens \in ExpressionInputs
          /\ pctx = Context_new
       \/ /\ prule = "parse_type"
          /\ ptokens \in TypeInputs
          /\ pctx = Context_new
       \/ /\ prule = "module"
          /\ ptokens \in ModuleInputs
          /\ pctx = Context_new
       \/ /\ prule = "merge_empty_statements"
          /\ ptokens \in StatementInputs
          /\ pctx = <<>>
       \/ /\ prule = "assignable"
          /\ ptokens \in CallInputs \cup ChainInputs
          /\ \E skip_newlines \in BOOLEAN :
                pctx = Context_push_skip_newlines(ptokens, Context_new, skip_newlines)
    /\ presult = <<>>
    /\ pwritten = <<>>
    /\ ppc = "call"

\* test!(expression, ...)
CallExpression ==
    /\ ppc = "call"
    /\ prule = "expression"
    /\ presult' = expression(ptokens, 1)
    /\ ppc' = "done"
    /\ UNCHANGED <<prule, ptokens, pctx, pwritten>>
    /\ UNCHANGED treeVars
    /\ UNCHANGED fmtVars
    /\ UNCHANGED ctxVars

\* test!(parse_type, ...)
CallParseType ==
    /\ ppc = "call"
    /\ prule = "parse_type"
    /\ presult' = parse_type(ptokens, pctx)
    /\ ppc' = "done"
    /\ UNCHANGED <<prule, ptokens, pctx, pwritten>>
    /\ UNCHANGED treeVars
    /\ UNCHANGED fmtVars
    /\ UNCHANGED ctxVars

\* assignable, called by the expression parser in either mode.
CallAssignable ==
    /\ ppc = "call"
    /\ prule = "assignable"
    /\ presult' = p_assignable(ptokens, pctx)
    /\ ppc' = "done"
    /\ UNCHANGED <<prule, ptokens, pctx, pwritten>>
    /\ UNCHANGED treeVars
    /\ UNCHANGED fmtVars
    /\ UNCHANGED ctxVars

\* module, on the tokens of a file.
CallModule ==
    /\ ppc = "call"
    /\ prule = "module"
    /\ presult' = p_module(ptokens)
    /\ ppc' = "done"
    /\ UNCHANGED <<prule, ptokens, pctx, pwritten>>
    /\ UNCHANGED treeVars
    /\ UNCHANGED fmtVars
    /\ UNCHANGED ctxVars

\* merge_empty_statements, on the statements of a module.
CallMergeEmptyStatements ==
    /\ ppc = "call"
    /\ prule = "merge_empty_statements"
    /\ presult' = merge_empty_statements(ptokens)
    /\ ppc' = "done"
    /\ UNCHANGED <<prule, ptokens, pctx, pwritten>>
    /\ UNCHANGED treeVars
    /\ UNCHANGED fmtVars
    /\ UNCHANGED ctxVars

\* write_expression on the expression that was parsed.
WriteExpression ==
    /\ ppc = "done"
    /\ prule = "expression"
    /\ presult.ok
    /\ pwritten' = write_expression(presult.val)
    /\ ppc' = "written"
    /\ UNCHANGED <<prule, ptokens, pctx, presult>>
    /\ UNCHANGED treeVars
    /\ UNCHANGED fmtVars
    /\ UNCHANGED ctxVars

\* write_type on the type that was parsed.
WriteType ==
    /\ ppc = "done"
    /\ prule = "parse_type"
    /\ presult.ok
    /\ pwritten' = write_type(presult.val)
    /\ ppc' = "written"
    /\ UNCHANGED <<prule, ptokens, pctx, presult>>
    /\ UNCHANGED treeVars
    /\ UNCHANGED fmtVars
    /\ UNCHANGED ctxVars

ParseNext ==
    \/ CallExpression
    \/ CallParseType
    \/ CallAssignable
    \/ CallModule
    \/ CallMergeEmptyStatements
    \/ WriteExpression
    \/ WriteType

ParseSpec == ParseInit /\ [][ParseNext]_vars

----
(***************************************************************************)
(* The operations of Context, called in any order on a Context over a      *)
(* token stream.                                                           *)
(***************************************************************************)

MaxTokens == 3

\* How many tokens past the end a cursor is followed.
MaxOver == 2

MaxSkip == 2

ContextTokens == CommentTokens \cup {"\n", "a"}

ContextInputs == UNION {[1 .. n -> ContextTokens] : n \in 0 .. MaxTokens}

\* usize::saturating_sub(1), on a cursor that counts from 1.
saturating_sub(curr) == IF curr > 1 THEN curr - 1 ELSE 1

\* curr - last_statement on usize: below zero the subtraction overflows, which
\* panics where overflow is checked and wraps to a huge length where it is
\* not, and take() then stops at the end of the tokens.
comments_since_last_statement(tokens, ctx) ==
    IF ctx.curr >= ctx.last_statement
    THEN {comments_taken(tokens, ctx,
                         IF ctx.last_statement > Len(tokens) THEN 0
                         ELSE IF ctx.curr > Len(tokens) + 1
                         THEN Len(tokens) + 1 - ctx.last_statement
                         ELSE ctx.curr - ctx.last_statement)}
    ELSE {<<"panic">>,
          comments_taken(tokens, ctx,
                         IF ctx.last_statement > Len(tokens) THEN 0
                         ELSE Len(tokens) + 1 - ctx.last_statement)}

CtxInit ==
    /\ TreeInit
    /\ FmtIdle
    /\ ParseIdle
    /\ ctokens \in ContextInputs
    /\ cctx = Context_new
    /\ cold = Context_new
    /\ cop = [name |-> "new", n |-> 0]
    /\ ccomments = <<>>
    /\ cpc = "idle"

\* Context::skip; a cursor MaxOver past the end is not moved on.
CtxSkip ==
    /\ cpc = "idle"
    /\ cctx.curr <= Len(ctokens) + MaxOver
    /\ \E n \in 0 .. MaxSkip :
          /\ cctx' = Context_skip(ctokens, cctx, n)
          /\ cop' = [name |-> "skip", n |-> n]
    /\ cold' = cctx
    /\ UNCHANGED <<ctokens, ccomments, cpc>>
    /\ UNCHANGED treeVars
    /\ UNCHANGED fmtVars
    /\ UNCHANGED parseVars

CtxSkipIf ==
    /\ cpc = "idle"
    /\ \E tok \in {"\n", "a"} : cctx' = Context_skip_if(ctokens, cctx, tok)
    /\ cop' = [name |-> "skip_if", n |-> 0]
    /\ cold' = cctx
    /\ UNCHANGED <<ctokens, ccomments, cpc>>
    /\ UNCHANGED treeVars
    /\ UNCHANGED fmtVars
    /\ UNCHANGED parseVars

CtxPushSkipNewlines ==
    /\ cpc = "idle"
    /\ \E skip_newlines \in BOOLEAN :
          cctx' = Context_push_skip_newlines(ctokens, cctx, skip_newlines)
    /\ cop' = [name |-> "push_skip_newlines", n |-> 0]
    /\ cold' = cctx
    /\ UNCHANGED <<ctokens, ccomments, cpc>>
    /\ UNCHANGED treeVars
    /\ UNCHANGED fmtVars
    /\ UNCHANGED parseVars

\* Context::pop_skip_newlines
CtxPopSkipNewlines ==
    /\ cpc = "idle"
    /\ \E skip_newlines \in BOOLEAN : cctx' = [cctx EXCEPT !.skip_newlines = skip_newlines]
    /\ cop' = [name |-> "pop_skip_newlines", n |-> 0]
    /\ cold' = cctx
    /\ UNCHANGED <<ctokens, ccomments, cpc>>
    /\ UNCHANGED treeVars
    /\ UNCHANGED fmtVars
    /\ UNCHANGED parseVars

\* Context::push_last_statement_location
CtxPushLastStatementLocation ==
    /\ cpc = "idle"
    /\ cctx' = [cctx EXCEPT !.last_statement = cctx.curr]
    /\ cop' = [name |-> "push_last_statement_location", n |-> 0]
    /\ cold' = cctx
    /\ UNCHANGED <<ctokens, ccomments, cpc>>
    /\ UNCHANGED treeVars
    /\ UNCHANGED fmtVars
    /\ UNCHANGED parseVars

\* Context::prev, up to its loop.
CtxPrev ==
    /\ cpc = "idle"
    /\ cctx' = [cctx EXCEPT !.curr = saturating_sub(cctx.curr)]
    /\ cold' = cctx
    /\ cop' = [name |-> "prev", n |-> 0]
    /\ cpc' = "prev"
    /\ UNCHANGED <<ctokens, ccomments>>
    /\ UNCHANGED treeVars
    /\ UNCHANGED fmtVars
    /\ UNCHANGED parseVars

\* Context::prev, one test of the loop condition and one turn of the loop.
CtxPrevLoop ==
    /\ cpc = "prev"
    /\ IF token(ctokens, cctx.curr) \in CommentTokens
       THEN /\ cctx' = [cctx EXCEPT !.curr = saturating_sub(cctx.curr)]
            /\ cpc' = "prev"
       ELSE /\ cctx' = cctx
            /\ cpc' = "idle"
    /\ UNCHANGED <<ctokens, cold, cop, ccomments>>
    /\ UNCHANGED treeVars
    /\ UNCHANGED fmtVars
    /\ UNCHANGED parseVars

CtxComments ==
    /\ cpc = "idle"
    /\ ccomments' \in comments_since_last_statement(ctokens, cctx)
    /\ cop' = [name |-> "comments_since_last_statement", n |-> 0]
    /\ cold' = cctx
    /\ UNCHANGED <<ctokens, cctx, cpc>>
    /\ UNCHANGED treeVars
    /\ UNCHANGED fmtVars
    /\ UNCHANGED parseVars

CtxNext ==
    \/ CtxSkip
    \/ CtxSkipIf
    \/ CtxPushSkipNewlines
    \/ CtxPopSkipNewlines
    \/ CtxPushLastStatementLocation
    \/ CtxPrev
    \/ CtxPrevLoop
    \/ CtxComments

CtxSpec == CtxInit /\ [][CtxNext]_vars

\* Context::prev is one call that runs its loop as long as the loop goes on.
CtxFairSpec == CtxSpec /\ WF_vars(CtxPrevLoop)

----
(***************************************************************************)
(* What the files that were read say, for the statements about tree().     *)
(***************************************************************************)
ConflictLines(f) ==
    {i \in DOMAIN source[f].text : source[f].text[i].k = "conflict"}

UseLines(f) ==
    {i \in DOMAIN source[f].text : source[f].text[i].k = "use"}

\* The files the use directives in the text of f name.
UseDirectives(f) == {source[f].text[i].f : i \in UseLines(f)}

\* f was read and handed to module().
WasParsed(f) == source[f].st = "text" /\ ConflictLines(f) = {}

RECURSIVE Closure(_, _)
Closure(S, parsedOnly) ==
    LET more == S \cup UNION {UseDirectives(f) :
                        f \in {g \in S : parsedOnly => WasParsed(g)}}
    IN IF more = S THEN S ELSE Closure(more, parsedOnly)

\* The files reachable from the entry through use directives.
Reachable == Closure({Entry}, FALSE)

\* The files reachable through the use directives of parsed files.
ReachableByParsing == Closure({Entry}, TRUE)

ModulePaths(ms) == {ms[i].path : i \in DOMAIN ms}

Pos(ms, f) == CHOOSE i \in DOMAIN ms : ms[i].path = f

InCycle(f) ==
    \/ f \in UseDirectives(f)
    \/ \E g \in Files \ {f} : g \in UseDirectives(f) /\ f \in UseDirectives(g)

----
\* C3: the reader is called at most once per path, each path is parsed at
\* most once, and no two entries of the module list have the same path.
C3_AtMostOnce ==
    /\ \A f \in Files : reads[f] <= 1 /\ parses[f] <= 1
    /\ \A i, j \in DOMAIN modules : modules[i].path = modules[j].path => i = j

\* A cyclic use graph, with a file named by two directives, was handled.
C3_Witness ==
    /\ pc = "done"
    /\ \E f \in Files : InCycle(f) /\ parses[f] = 1
    /\ \E f \in Files : \E i, j \in UseLines(f) :
          i # j /\ source[f].text[i].f = source[f].text[j].f

\* C4: in an Ok result the paths of the modules are exactly the files
\* reachable from the entry through use directives, each once.
C4_ExactlyReachable ==
    (pc = "done" /\ result.st = "Ok") =>
        /\ ModulePaths(result.modules) = Reachable
        /\ Len(result.modules) = Cardinality(Reachable)

C4_Witness ==
    /\ pc = "done"
    /\ result.st = "Ok"
    /\ Cardinality(Reachable) = 3
    /\ \E f \in Files \ {Entry} : UseDirectives(f) # {}

\* C5: tree() terminates, also on cyclic use graphs.
C5_Terminates == <>(pc = "done")

C5_Witness ==
    /\ pc = "done"
    /\ \E f \in Files : InCycle(f) /\ reads[f] = 1

----
EntryUses ==
    SelectSeq([i \in DOMAIN source[Entry].text |->
                  IF source[Entry].text[i].k = "use" THEN source[Entry].text[i].f ELSE Entry],
              LAMBDA f : f # Entry)

----
SameSyntaxKey(a, b) ==
    /\ a.kind = "SyntaxError"
    /\ b.kind = "SyntaxError"
    /\ a.file = b.file
    /\ a.span = b.span

\* C7: no two syntax errors of the returned list have the same file and span.
C7_NoDuplicateSyntaxErrors ==
    (pc = "done" /\ result.st = "Err") =>
        \A i, j \in DOMAIN result.errors :
            SameSyntaxKey(result.errors[i], result.errors[j]) => i = j

\* The collected errors held the pair that detail_if_error! makes.
C7_Witness ==
    /\ pc = "done"
    /\ result.st = "Err"
    /\ \E i, j \in DOMAIN errors :
          /\ i < j
          /\ SameSyntaxKey(errors[i], errors[j])
          /\ errors[i].message # errors[j].message

\* The indices of the collected errors that the filter is to keep: every
\* error that is no syntax error, and the first syntax error of each file
\* and span.
KeptIndices ==
    {i \in DOMAIN errors :
        \A j \in 1 .. (i - 1) : ~SameSyntaxKey(errors[j], errors[i])}

NthKept(n) ==
    CHOOSE i \in KeptIndices : Cardinality({j \in KeptIndices : j <= i}) = n

\* C8: the returned errors are the collected errors without the later syntax
\* errors of a file and span, in the order they were collected.
C8_KeepsFirstInOrder ==
    (pc = "done" /\ result.st = "Err") =>
        /\ Len(result.errors) = Cardinality(KeptIndices)
        /\ \A n \in DOMAIN result.errors : result.errors[n] = errors[NthKept(n)]

\* A syntax error was dropped and an error of another kind was passed through.
C8_Witness ==
    /\ pc = "done"
    /\ result.st = "Err"
    /\ Len(result.errors) < Len(errors)
    /\ \E i \in DOMAIN result.errors : result.errors[i].kind # "SyntaxError"

----
ErrorsOfFile(f) == SelectSeq(errors, LAMBDA e : e.file = f)

\* The conflict errors a file with marker lines is to give: one for each
\* marker line, in order, at columns 1 to 8.
RECURSIVE ExpectedConflictErrors(_, _)
ExpectedConflictErrors(f, i) ==
    IF i > Len(source[f].text) THEN <<>>
    ELSE (IF i \in ConflictLines(f)
          THEN <<GitConflictError(f, [line |-> i, col_start |-> 1, col_end |-> 8])>>
          ELSE <<>>) \o ExpectedConflictErrors(f, i + 1)

\* C9: a file with k >= 1 marker lines gives exactly k GitConflictErrors, is
\* not parsed, gives no module and no syntax error, its use directives add
\* nothing to the worklist, and the result is Err.
C9_ConflictFile ==
    \A f \in Files :
        (source[f].st = "text" /\ ConflictLines(f) # {}) =>
            /\ ErrorsOfFile(f) = ExpectedConflictErrors(f, 1)
            /\ Len(ErrorsOfFile(f)) = Cardinality(ConflictLines(f))
            /\ parses[f] = 0
            /\ f \notin ModulePaths(modules)
            /\ \A g \in visited \cup {to_visit[i] : i \in DOMAIN to_visit} :
                  g \in ReachableByParsing
            /\ pc = "done" => result.st = "Err"

\* A file with two marker lines and a use directive of a file that is named
\* nowhere else, so never visited.
C9_Witness ==
    /\ pc = "done"
    /\ \E f \in Files :
          /\ Cardinality(ConflictLines(f)) = 2
          /\ \E g \in UseDirectives(f) : g \notin visited

----
\* C10: a failed read gives exactly one FileNotFound for the path, the loop
\* goes on to read every file the worklist holds or gets, and the result is
\* Err with that FileNotFound.
C10_ReadFailure ==
    \A f \in Files :
        source[f].st = "missing" =>
            /\ Len(SelectSeq(errors, LAMBDA e : e = FileNotFound(f))) = 1
            /\ pc = "done" =>
                  /\ visited = ReachableByParsing
                  /\ \A g \in ReachableByParsing : reads[g] = 1
                  /\ \A g \in ReachableByParsing : WasParsed(g) => parses[g] = 1
                  /\ result.st = "Err"
                  /\ Len(SelectSeq(result.errors, LAMBDA e : e = FileNotFound(f))) = 1

\* The entry names g, then f; f is popped first and its read fails; g is
\* read and parsed after that.
C10_Witness ==
    /\ pc = "done"
    /\ \E f, g \in Files \ {Entry} :
          /\ f # g
          /\ EntryUses = <<g, f>>
          /\ source[f].st = "missing"
          /\ parses[g] = 1

----
(***************************************************************************)
(* The round trip of the formatter.                                        *)
(***************************************************************************)
\* C1: for every file that parses, the written text parses as well, and
\* writing it again gives the same text, character for character.
C1_RoundTrip ==
    /\ fpc # "reparse_failed"
    /\ fpc = "done" => text2 = text1

\* C2: for every file that parses, the written text parses as well, and to
\* the same statements: same operator nesting, same tuple arity, same calls.
C2_PreservesStructure ==
    /\ fpc # "reparse_failed"
    /\ fpc \in {"reparsed", "done"} => tree2 = tree1

----
(***************************************************************************)
(* The expression parser.                                                  *)
(***************************************************************************)
\* The expression a single operand token parses to.
Operand(t) ==
    IF t \in IntTokens THEN Node("Int", t, <<>>)
    ELSE Node("Get", "", <<Node("Read", t, <<>>)>>)

Binary(op, lhs, rhs) == Node(infix_kind(op), "", <<lhs, rhs>>)

\* The level the operator table gives each binary operator: Assert, BoolOr,
\* BoolAnd, Comp, Term, Factor, from the lowest.
TableLevel(op) ==
    CASE op = "<=>" -> 1
      [] op = "||" -> 2
      [] op = "&&" -> 3
      [] op \in {"==", "!=", "<", "<=", ">", ">="} -> 4
      [] op \in {"+", "-"} -> 5
      [] op \in {"*", "/"} -> 6

\* expression was called on `x op1 y op2 z` with two binary operators.
TwoOperators ==
    /\ ppc = "done"
    /\ prule = "expression"
    /\ Len(ptokens) = 5
    /\ ptokens[2] \in BinaryTokens
    /\ ptokens[4] \in BinaryTokens

\* C11: with op1 at a lower level than op2, `x op1 y op2 z` parses as
\* op1(x, op2(y, z)) and `x op2 y op1 z` parses as op1(op2(x, y), z); all
\* five tokens are consumed.
C11_Precedence ==
    TwoOperators =>
        /\ TableLevel(ptokens[2]) < TableLevel(ptokens[4]) =>
              presult = Ok(6, Binary(ptokens[2], Operand(ptokens[1]),
                                     Binary(ptokens[4], Operand(ptokens[3]),
                                            Operand(ptokens[5]))))
        /\ TableLevel(ptokens[2]) > TableLevel(ptokens[4]) =>
              presult = Ok(6, Binary(ptokens[4],
                                     Binary(ptokens[2], Operand(ptokens[1]),
                                            Operand(ptokens[3])),
                                     Operand(ptokens[5])))

C11_Witness ==
    /\ TwoOperators
    /\ ptokens = <<"a", "||", "b", "*", "1">>
    /\ presult.val.k = "Or"
    /\ presult.val.c[2].k = "Mul"

\* C12: `x op y op z`, and any two operators of one level, parse to the left:
\* op(op(x, y), z).
C12_LeftAssociative ==
    TwoOperators /\ TableLevel(ptokens[2]) = TableLevel(ptokens[4]) =>
        presult = Ok(6, Binary(ptokens[4],
                               Binary(ptokens[2], Operand(ptokens[1]), Operand(ptokens[3])),
                               Operand(ptokens[5])))

C12_Witness ==
    /\ TwoOperators
    /\ ptokens = <<"a", "-", "b", "-", "1">>
    /\ presult.val.k = "Sub"
    /\ presult.val.c[1].k = "Sub"

\* expression was called on `x -> R`; R is what parse_precedence gives for the
\* tokens after the arrow, at the level after the arrow's.
ArrowCalled ==
    /\ ppc = "done"
    /\ prule = "expression"
    /\ Len(ptokens) >= 3
    /\ ptokens[2] = "->"

ArrowRight == parse_precedence(ptokens, 3, next(Prec_Arrow))

\* The arrow call of callee with the expression first and then args.
IsArrowCall(e, first, callee, args) ==
    \/ e = Node("Get", "", <<Node("ArrowCall", "", <<first, callee>> \o args)>>)
    \/ e = Node("Get", "", <<Node("Call", "", <<callee, first>> \o args)>>)

\* C13: in `x -> R`, an R that is a call gives the arrow call of its callee
\* with x in front of its arguments; an R that is a name gives the arrow call
\* of the name with x alone; any other R makes the parse fail with "Expected a
\* call-expression after '->'".
C13_ArrowCall ==
    ArrowCalled /\ ArrowRight.ok /\ ArrowRight.pos = Len(ptokens) + 1 =>
        LET R == ArrowRight.val
            x == Operand(ptokens[1])
        IN IF R.k = "Get" /\ R.c[1].k = "Call"
           THEN /\ presult.ok
                /\ IsArrowCall(presult.val, x, R.c[1].c[1], Tail(R.c[1].c))
           ELSE IF R.k = "Get" /\ R.c[1].k = "Read"
           THEN /\ presult.ok
                /\ IsArrowCall(presult.val, x, R.c[1], <<>>)
           ELSE /\ ~presult.ok
                /\ \E i \in DOMAIN presult.errs :
                      presult.errs[i].message = "Expected a call-expression after '->'"

----
(***************************************************************************)
(* Brace literals.                                                         *)
(***************************************************************************)
\* The expression e and every expression inside it.
RECURSIVE SubExpressions(_)
SubExpressions(e) ==
    {e} \cup UNION {SubExpressions(e.c[i]) : i \in DOMAIN e.c}

\* expression was called on a brace literal and accepted it.
BraceAccepted ==
    /\ ppc = "done"
    /\ prule = "expression"
    /\ ptokens[1] = "{"
    /\ presult.ok

\* C14: every Dict in an accepted brace literal holds an even number of
\* expressions, and writing the literal never finds a key without its value.
C14_DictEven ==
    BraceAccepted =>
        /\ \A e \in SubExpressions(presult.val) : e.k = "Dict" => Len(e.c) % 2 = 0
        /\ \A i \in DOMAIN write_expression(presult.val) :
              write_expression(presult.val)[i] # "panic"

C14_Witness ==
    /\ BraceAccepted
    /\ ptokens = <<"{", "1", ":", "a", ",", "}">>
    /\ presult.val = Node("Dict", "", <<Operand("1"), Operand("a")>>)
    /\ write_expression(presult.val) = <<"{", "1", ": ", "a", "}">>

\* The tokens of the literal that was accepted, when no literal is inside it.
Literal == SubSeq(ptokens, 1, presult.pos - 1)

Flat == \A i \in 2 .. Len(Literal) : Literal[i] # "{"

\* C15: `{}` is the empty Set and `{:}` the empty Dict; an accepted literal
\* whose first element is followed by `:` is a Dict, any other is a Set; in a
\* Set no `:` stands, in a Dict every element stands next to a `:`, so a
\* literal that mixes plain elements and pairs is never accepted.
C15_SetOrDict ==
    /\ ppc = "done" /\ prule = "expression" /\ ptokens = <<"{", "}">> =>
          presult = Ok(3, Node("Set", "", <<>>))
    /\ ppc = "done" /\ prule = "expression" /\ ptokens = <<"{", ":", "}">> =>
          presult = Ok(4, Node("Dict", "", <<>>))
    /\ BraceAccepted /\ Flat =>
          /\ presult.val.k \in {"Set", "Dict"}
          /\ Literal[Len(Literal)] = "}"
          /\ Literal[2] \in OperandTokens =>
                (presult.val.k = "Dict" <=> Literal[3] = ":")
          /\ presult.val.k = "Set" => \A i \in DOMAIN Literal : Literal[i] # ":"
          /\ presult.val.k = "Dict" =>
                \A i \in DOMAIN Literal :
                   Literal[i] \in OperandTokens =>
                        Literal[i - 1] = ":" \/ Literal[i + 1] = ":"

C15_Witness ==
    /\ ppc = "done"
    /\ prule = "expression"
    /\ ptokens = <<"{", "1", ",", "a", ":", "1">>
    /\ ~presult.ok

----
(***************************************************************************)
(* Types.                                                                  *)
(***************************************************************************)
TypeAtoms == {"int", "str"}

\* The cursor after n tokens of a text without newlines and comments.
CursorAfter(n) == [Context_new EXCEPT !.curr = n + 1]

Union(a, b) == Node("Union", "", <<a, b>>)

TypeParsed ==
    /\ ppc = "done"
    /\ prule = "parse_type"

\* C16: `A | B?` is consumed whole as Union(A, Union(B, void)) and `A? | B`
\* is consumed whole as Union(Union(A, void), B).
C16_UnionAndQuestion ==
    TypeParsed /\ Len(ptokens) = 4 =>
        /\ /\ ptokens[1] \in TypeAtoms /\ ptokens[2] = "|"
           /\ ptokens[3] \in TypeAtoms /\ ptokens[4] = "?"
           => presult = POk(CursorAfter(4),
                            Union(Resolved(ptokens[1]),
                                  Union(Resolved(ptokens[3]), Resolved("void"))))
        /\ /\ ptokens[1] \in TypeAtoms /\ ptokens[2] = "?"
           /\ ptokens[3] = "|" /\ ptokens[4] \in TypeAtoms
           => presult = POk(CursorAfter(4),
                            Union(Union(Resolved(ptokens[1]), Resolved("void")),
                                  Resolved(ptokens[4])))

\* parse_type was called on `(`, atoms with a comma between them, maybe a
\* comma after the last, and `)`.
ParenTypeParsed ==
    /\ TypeParsed
    /\ Len(ptokens) >= 2
    /\ ptokens[1] = "("
    /\ ptokens[Len(ptokens)] = ")"
    /\ \A i \in 2 .. Len(ptokens) - 1 :
          IF i % 2 = 0 THEN ptokens[i] \in TypeAtoms ELSE ptokens[i] = ","

\* The types listed between the parentheses, in the order of the text.
ListedTypes == [j \in 1 .. (Len(ptokens) - 1) \div 2 |-> Resolved(ptokens[2 * j])]

\* C17: `()` is the Tuple of no types, `(T,)` the Tuple of one, `(T)` is
\* Grouping(T) and `(T, U, ...)`, with or without a last comma, the Tuple of
\* the listed types in their order; everything up to `)` is consumed.
C17_ParenType ==
    ParenTypeParsed =>
        presult = POk(CursorAfter(Len(ptokens)),
                      IF Len(ptokens) = 3 THEN Node("Grouping", "", ListedTypes)
                      ELSE Node("Tuple", "", ListedTypes))

C17_Witness ==
    /\ ParenTypeParsed
    /\ ptokens = <<"(", "int", ",", "str", ",", ")">>
    /\ presult.val = Node("Tuple", "", <<Resolved("int"), Resolved("str")>>)

\* The place of the first `->`, or 0.
ArrowAt ==
    IF \E k \in DOMAIN ptokens : ptokens[k] = "->"
    THEN CHOOSE k \in DOMAIN ptokens :
            ptokens[k] = "->" /\ \A j \in 1 .. k - 1 : ptokens[j] # "->"
    ELSE 0

\* parse_type was called on `fn`, atoms with commas as parameters, `->`, and
\* tokens from which no type can be parsed.
FnReturnMissing ==
    /\ TypeParsed
    /\ ptokens[1] = "fn"
    /\ ArrowAt > 0
    /\ \A i \in 2 .. ArrowAt - 1 :
          IF i % 2 = 0 THEN ptokens[i] \in TypeAtoms ELSE ptokens[i] = ","
    /\ ~parse_type(ptokens, CursorAfter(ArrowAt)).ok

\* The function type of the parameters in front of the arrow, returning void.
FnVoid ==
    Node("Fn", "",
         [j \in 1 .. (ArrowAt - 1) \div 2 + 1 |->
            IF j <= (ArrowAt - 1) \div 2 THEN Resolved(ptokens[2 * j]) ELSE Resolved("void")])

\* C18 as stated: when no type can be parsed after `->`, parse_type returns
\* Fn(params, void) without an error and with the cursor right after `->`.
C18_FnReturnFallback ==
    FnReturnMissing => presult = POk(CursorAfter(ArrowAt), FnVoid)

\* C18, amended: that is so unless the token after `->` is `?` or `|`; a `?`
\* is consumed and gives Union(Fn(params, void), void), a `|` is consumed as a
\* union with the function type on its left, and fails if no type follows.
C18_FnReturnFallbackOrPostfix ==
    FnReturnMissing =>
        LET after == token(ptokens, ArrowAt + 1)
            rest == parse_type(ptokens, CursorAfter(ArrowAt + 1))
        IN CASE after = "?" ->
                    presult = POk(CursorAfter(ArrowAt + 1), Union(FnVoid, Resolved("void")))
             [] after = "|" ->
                    IF rest.ok
                    THEN /\ presult.ok
                         /\ presult.ctx.curr >= rest.ctx.curr
                         /\ presult.val \in {Union(FnVoid, rest.val),
                                             Union(Union(FnVoid, rest.val), Resolved("void"))}
                    ELSE ~presult.ok
             [] OTHER -> presult = POk(CursorAfter(ArrowAt), FnVoid)

C18_Witness ==
    /\ FnReturnMissing
    /\ ptokens = <<"fn", "->", "(", "int">>
    /\ presult = POk(CursorAfter(2), Node("Fn", "", <<Resolved("void")>>))

\* assignable was called on `f'` and the tokens that follow it.
PrimeCalled ==
    /\ ppc = "done"
    /\ prule = "assignable"
    /\ token(ptokens, 2) = "'"

\* The tokens the parser sees: the newlines are passed with the token in
\* front of them where newlines are skipped.
Seen == IF pctx.skip_newlines THEN SelectSeq(ptokens, LAMBDA t : t # "\n") ELSE ptokens

\* The first argument position that holds no integer: the integers in front
\* of it are arguments, each followed by at most one comma.
ArgumentsEnd ==
    CHOOSE j \in 3 .. Len(Seen) + 1 :
        /\ token(Seen, j) \notin IntTokens
        /\ ~(token(Seen, j) = "," /\ j > 3 /\ Seen[j - 1] \in IntTokens)
        /\ \A i \in 3 .. j - 1 :
              \/ Seen[i] \in IntTokens
              \/ (Seen[i] = "," /\ i > 3 /\ Seen[i - 1] \in IntTokens)

\* The integers in front of ArgumentsEnd, as arguments, in source order.
IntArguments ==
    LET ints == SelectSeq(SubSeq(Seen, 3, ArgumentsEnd - 1), LAMBDA t : t \in IntTokens)
    IN [i \in 1 .. Len(ints) |-> Node("Int", ints[i], <<>>)]

PrimeCallOf(args) == Node("Call", "", <<Node("Read", "f", <<>>)>> \o args)

ParenCalled ==
    /\ ppc = "done"
    /\ prule = "assignable"
    /\ token(ptokens, 2) = "("
    /\ ptokens[Len(ptokens)] = ")"
    /\ \A i \in 3 .. Len(ptokens) - 1 : ptokens[i] # ")"

\* The same call on one line.
OneLine == SelectSeq(ptokens, LAMBDA t : t # "\n")

\* C20: the newlines between `(` and the matching `)` of a call are ignored:
\* a call written over several lines gives the Call of its one-line form,
\* whether the enclosing context skips newlines or not.
C20_ParenCallNewlines ==
    (ParenCalled /\ p_assignable(OneLine, Context_new).ok) =>
        /\ presult.ok
        /\ presult.val = p_assignable(OneLine, Context_new).val
        /\ presult.ctx.curr = Len(ptokens) + 1

\* assignable was called on a chain of at least two steps, newlines
\* significant.
ChainParsed ==
    /\ ppc = "done"
    /\ prule = "assignable"
    /\ ptokens \in ChainInputs
    /\ pctx = Context_new
    /\ \E i \in DOMAIN ptokens : ptokens[i] = "."

\* The place of the first `.` of the chain.
FirstDot == CHOOSE i \in DOMAIN ptokens : ptokens[i] = "." /\ \A j \in 1 .. i - 1 : ptokens[j] # "."

\* Access(h, r): an access whose right side is the assignable r; where r is
\* one identifier it is the Access(base, Identifier) of AssignableKind.
AccessOf(h, r) ==
    IF r.k = "Read" THEN Node("Access", r.n, <<h>>) ELSE Node("Access", "", <<h, r>>)

\* C21: a chain `H . R` is parsed into Access(parse of H, parse of R), the
\* rest of the chain being parsed recursively as the right side.
C21_AccessChain ==
    ChainParsed =>
        /\ presult.ok
        /\ presult.val =
              AccessOf(p_assignable(SubSeq(ptokens, 1, FirstDot - 1), Context_new).val,
                       p_assignable(SubSeq(ptokens, FirstDot + 1, Len(ptokens)),
                                    Context_new).val)

\* The text of the pieces written.
RECURSIVE Joined(_)
Joined(pieces) == IF pieces = <<>> THEN "" ELSE Head(pieces) \o Joined(Tail(pieces))

\* The texts, with ", " between two of them.
RECURSIVE CommaSeparated(_)
CommaSeparated(texts) ==
    IF texts = <<>> THEN ""
    ELSE IF Len(texts) = 1 THEN texts[1]
    ELSE texts[1] \o ", " \o CommaSeparated(Tail(texts))

\* How a tuple of the elements with these texts is to be printed.
TupleText(texts) ==
    IF Len(texts) = 1 THEN "(" \o texts[1] \o ",)"
    ELSE "(" \o CommaSeparated(texts) \o ")"

\* The formatter has written the expression or the type that was parsed.
Written == ppc = "written"

\* C22: a tuple expression or tuple type is printed as `()` with no element,
\* as `(e,)` with one element and as `(e1, e2, ...)` with more; an empty dict
\* is printed as `{:}` and an empty set as `{}`.
C22_TupleText ==
    Written =>
        /\ (prule = "expression" /\ presult.val.k = "Tuple") =>
                Joined(pwritten) =
                    TupleText([i \in DOMAIN presult.val.c |->
                                    Joined(write_expression(presult.val.c[i]))])
        /\ (prule = "parse_type" /\ presult.val.k = "Tuple") =>
                Joined(pwritten) =
                    TupleText([i \in DOMAIN presult.val.c |->
                                    Joined(write_type(presult.val.c[i]))])
        /\ (prule = "expression" /\ presult.val = Node("Dict", "", <<>>)) =>
                Joined(pwritten) = "{:}"
        /\ (prule = "expression" /\ presult.val = Node("Set", "", <<>>)) =>
                Joined(pwritten) = "{}"

\* Context::skip has returned.
SkipDone == cpc = "idle" /\ cop.name = "skip"

NonComment(i) == token(ctokens, i) \notin CommentTokens

\* C23: skip(n) passes exactly n tokens that are no comments, a place past
\* the end counting as an EOF token, and then every comment that follows and,
\* where newlines are skipped, every newline that follows; the token it
\* stops on is no comment and, where newlines are skipped, no newline.
C23_Skip ==
    SkipDone =>
        /\ \E k \in cold.curr .. cctx.curr :
              /\ Cardinality({i \in cold.curr .. k - 1 : NonComment(i)}) = cop.n
              /\ IF cop.n = 0 THEN k = cold.curr ELSE NonComment(k - 1)
              /\ \A i \in k .. cctx.curr - 1 :
                    \/ ~NonComment(i)
                    \/ (token(ctokens, i) = "\n" /\ cold.skip_newlines)
        /\ NonComment(cctx.curr)
        /\ cold.skip_newlines => token(ctokens, cctx.curr) # "\n"
        /\ cctx.skip_newlines = cold.skip_newlines
        /\ cctx.last_statement = cold.last_statement

C23_Witness ==
    /\ SkipDone
    /\ ctokens = <<"//c", "a", "\n">>
    /\ cold.curr = 1
    /\ cold.skip_newlines
    /\ cop.n = 1
    /\ cctx.curr = 4

\* Context::prev has returned.
PrevDone == cpc = "idle" /\ cop.name = "prev"

\* The tokens strictly before the cursor prev was called on that are no
\* comments.
TokensBefore == {i \in 1 .. cold.curr - 1 : NonComment(i)}

\* C24: prev() terminates on every context and every token stream, never
\* moves the cursor before the first token, and returns a context on the
\* nearest token strictly before the current one that is no comment.
C24_Prev ==
    /\ [](cctx # <<>> => cctx.curr >= 1)
    /\ []((PrevDone /\ TokensBefore # {}) =>
            /\ cctx.curr \in TokensBefore
            /\ \A i \in TokensBefore : i <= cctx.curr)
    /\ (cpc = "prev") ~> (cpc = "idle")

\* The comments at the places from last_statement to just before curr, in
\* order.
CommentsBetween ==
    SelectSeq([i \in 1 .. cold.curr - cold.last_statement |->
                    token(ctokens, cold.last_statement + i - 1)],
              LAMBDA t : t \in CommentTokens)

\* C28: after any sequence of Context operations last_statement <= curr, so
\* comments_since_last_statement never takes a negative length, and it returns
\* exactly the comments from last_statement to just before curr, in order.
C28_LastStatement ==
    /\ (cpc = "idle" /\ cop.name # "comments_since_last_statement") =>
            cctx.last_statement <= cctx.curr
    /\ (cpc = "idle" /\ cop.name = "comments_since_last_statement") =>
            /\ cold.last_statement <= cold.curr
            /\ ccomments = CommentsBetween

\* module was called on the tokens of a file.
ModuleParsed == ppc = "done" /\ prule = "module"

\* The places where a line begins: a token that is no newline, the first of
\* the file or the one after a newline.
LineStarts ==
    {i \in DOMAIN ptokens : ptokens[i] # "\n" /\ (i = 1 \/ ptokens[i - 1] = "\n")}

\* The place just after the line that begins at s: its newline, or the end.
LineEnd(s) ==
    CHOOSE e \in s .. Len(ptokens) + 1 :
        /\ token(ptokens, e) \in {"\n", "EOF"}
        /\ \A i \in s .. e - 1 : ptokens[i] # "\n"

\* The statement that begins at s was attempted: it is in the list of the
\* statements, or an error lies in its line.
Attempted(s) ==
    \/ \E i \in DOMAIN presult.parsed : presult.parsed[i].span = s
    \/ \E i \in DOMAIN presult.errs : presult.errs[i].at \in s .. LineEnd(s)

\* C25: after a statement fails, module() goes on at the first newline after
\* the offending token: the statement of every line is attempted, and the
\* loop ends at the end of the tokens.
C25_ModuleRecovery ==
    ModuleParsed =>
        /\ \A s \in LineStarts : Attempted(s)
        /\ token(ptokens, presult.ctx.curr) = "EOF"
        /\ presult.ok <=> presult.errs = <<>>

\* parse_type or assignable has returned an error.
ParseFailed ==
    /\ ppc = "done"
    /\ prule \in {"parse_type", "assignable"}
    /\ ~presult.ok

\* C26: a syntax error carries the file of the context and the span of the
\* token that was current where it was raised, and the context returned with
\* it, also through `?`, is that context after skip(1), strictly past the
\* offending token.
C26_ErrorContext ==
    ParseFailed =>
        /\ Len(presult.errs) = 1
        /\ presult.errs[1].file = pctx.file
        /\ presult.errs[1].at \in pctx.curr .. Len(ptokens) + 1
        /\ presult.ctx = Context_skip(ptokens, [pctx EXCEPT !.curr = presult.errs[1].at], 1)
        /\ presult.ctx.curr > presult.errs[1].at

\* The error of `fn (int` is raised by the tuple type inside the function type.
C26_Witness ==
    /\ ParseFailed
    /\ ptokens = <<"fn", "(", "int">>
    /\ presult.errs = <<[file |-> "file.sy", at |-> 4,
                         message |-> "Expected ')' after tuple or grouping"]>>
    /\ presult.ctx.curr = 5

\* merge_empty_statements has returned.
Merged == ppc = "done" /\ prule = "merge_empty_statements"

IsEmpty(statement) == statement.k = "EmptyStatement"

\* The places of the statements that stay: a statement that is not empty, and
\* the first of a run of empty statements.
Kept == {i \in DOMAIN ptokens : ~IsEmpty(ptokens[i]) \/ i = 1 \/ ~IsEmpty(ptokens[i - 1])}

\* The j-th of the places that stay.
KeptAt(j) == CHOOSE i \in Kept : Cardinality({k \in Kept : k <= i}) = j

\* The last place of the run of empty statements that begins at i.
RunEnd(i) ==
    CHOOSE e \in i .. Len(ptokens) :
        /\ \A k \in i .. e : IsEmpty(ptokens[k])
        /\ e = Len(ptokens) \/ ~IsEmpty(ptokens[e + 1])

\* The comments of the statements, one after the other.
RECURSIVE CommentsOf(_)
CommentsOf(statements) ==
    IF statements = <<>> THEN <<>>
    ELSE statements[1].comments \o CommentsOf(Tail(statements))

\* C27: every run of consecutive EmptyStatements becomes one EmptyStatement
\* with the comments of the run in order; a statement that is not empty stays
\* as it is, in its place among the others; no comment is lost or doubled, and
\* no two EmptyStatements are next to each other in the result.
C27_MergeEmptyStatements ==
    Merged =>
        /\ Len(presult) = Cardinality(Kept)
        /\ \A j \in DOMAIN presult :
              IF IsEmpty(ptokens[KeptAt(j)])
              THEN presult[j] =
                      Statement("EmptyStatement", <<>>,
                                CommentsOf(SubSeq(ptokens, KeptAt(j), RunEnd(KeptAt(j)))))
              ELSE presult[j] = ptokens[KeptAt(j)]
        /\ CommentsOf(presult) = CommentsOf(ptokens)
        /\ \A j \in 1 .. Len(presult) - 1 : ~(IsEmpty(presult[j]) /\ IsEmpty(presult[j + 1]))

C27_Witness ==
    /\ Merged
    /\ Len(ptokens) = 4
    /\ ptokens[1] = Statement("EmptyStatement", <<>>, <<"//c">>)
    /\ ptokens[2] = Statement("EmptyStatement", <<>>, <<"//d">>)
    /\ ~IsEmpty(ptokens[3])
    /\ IsEmpty(ptokens[4])
    /\ Len(presult) = 3
    /\ presult[1] = Statement("EmptyStatement", <<>>, <<"//c", "//d">>)

\* parse_type was called on `(`, element types that are atoms, commas between
\* some of them, and `)`.
ParenElementsParsed ==
    /\ ppc = "done"
    /\ prule = "parse_type"
    /\ Len(ptokens) >= 2
    /\ ptokens[1] = "("
    /\ ptokens[Len(ptokens)] = ")"
    /\ \A i \in 2 .. Len(ptokens) - 1 : ptokens[i] \in TypeAtoms \cup {","}

\* The element types between the parentheses, in order.
ElementTypes ==
    LET atoms == SelectSeq(ptokens, LAMBDA t : t \in TypeAtoms)
    IN [i \in DOMAIN atoms |-> Resolved(atoms[i])]

\* Two element types stand next to each other with no comma between them.
CommaMissing == \E i \in 2 .. Len(ptokens) - 2 : ptokens[i] \in TypeAtoms /\ ptokens[i + 1] \in TypeAtoms

\* C29: parse_type drops no element type it parsed between parentheses: a
\* Grouping is returned only for one element type and no comma, two element
\* types with no comma between them are a syntax error, and no Grouping is
\* made of an empty list of element types.
C29_ParenElements ==
    ParenElementsParsed =>
        /\ presult.ok => presult.val.c = ElementTypes
        /\ (presult.ok /\ presult.val.k = "Grouping") =>
                (Len(ElementTypes) = 1 /\ \A i \in DOMAIN ptokens : ptokens[i] # ",")
        /\ CommaMissing => ~presult.ok

\* The lines of f whose statement fails to parse.
FailingLines(f) ==
    {i \in DOMAIN source[f].text : source[f].text[i].k \in {"bad", "detail"}}

====
